---- MODULE Spec2Model ----
(***************************************************************************)
(* Verification model of the ALM cash-flow pipeline:                       *)
(*   - the pipeline runner (execute_functions, continue_execution,         *)
(*     stop_execution, ExecutionService) over the ExecutionHistory table;  *)
(*   - Pipeline._execute_step (retry with backoff);                        *)
(*   - Pipeline.validate_dependencies / Pipeline.execute;                  *)
(*   - the per-snapshot relations and the TimeBucketMaster shared by runs  *)
(*     of different snapshot dates.                                        *)
(* Each part has its own specification over the shared variable list; the  *)
(* variables of the other parts stay at their idle values.                 *)
(***************************************************************************)
EXTENDS Integers, Sequences, FiniteSets, TLC

VARIABLES
    history,    \* rows of alm_ExecutionHistory for one snapshot date
    runner,     \* request threads inside execute_view / continue_execution
    served,     \* number of requests served, by kind
    limits,     \* how many requests a behaviour may hold, by kind
    stopped,    \* runs stopped by stop_execution and not resumed since,
                \* each with the step that was stopped
    retry,      \* one call of Pipeline._execute_step
    pipe,       \* one call of Pipeline.execute
    db,         \* the tables behind steps 8..11 (bucketing to report load)
    job         \* per snapshot date, the position of its run in steps 8..11

runnerVars == <<history, runner, served, limits, stopped>>

dataVars == <<db, job>>

vars == <<history, runner, served, limits, stopped, retry, pipe, db, job>>

----------------------------------------------------------------------------
(* Bounds *)

MaxExecutes  == 1    \* execute requests per behaviour
MaxContinues == 1    \* continue requests per behaviour
MaxStops     == 1    \* stop requests per behaviour
MaxActive    == 2    \* requests the server works on at the same time
MaxResumes   == 3    \* continue requests per behaviour, served one at a time
MaxRetry     == 5    \* largest retry_count of a step
MaxPipeSteps == 3    \* steps of a pipeline handed to Pipeline.execute
MaxDeps      == 3    \* entries of all depends_on lists of a pipeline
MaxBuckets   == 2    \* rows of Time_buckets
MaxCashflows == 2    \* Arranged_cashflows rows of one snapshot date
MaxDefs      == 3    \* bucket definitions drawn for a single snapshot
MaxEvents    == 3    \* candidate cash-flow events of a single snapshot
MaxBalances  == 3    \* candidate product_balance rows of a single snapshot
MaxSyncs     == 2    \* consecutive sync_bucket_columns calls on one relation
MaxMasterChanges == 2 \* refreshes of the TimeBucketMaster between the calls
MaxWidth     == 3    \* bucket columns of the relation that is respread
MaxProdRows  == 3    \* candidate Aggregated_Prod_Cashflow_Base rows of the load
MaxLoads     == 2    \* report_contractual_load calls on one relation

----------------------------------------------------------------------------
(* execute.py: the pipeline definition *)

TOTAL_PIPELINE_STEPS ==
    << "Process First Day Cashflows",
       "Process Credit Line Cashflows",
       "Process Loan Cashflows",
       "Balance Cashflows to Target",
       "Process Overdraft Cashflows",
       "Process Investment Cashflows",
       "Process First Day Cashflows (Re-run)",
       "Calculate Time Buckets and Spread",
       "Aggregate by Product Code",
       "Create Report Contractual Table",
       "Load Contractual Report",
       "Align Buckets to Balance",
       "Load Contractual Consolidated Report",
       "Load Behavioural Report",
       "Load Rate-Sensitive Report" >>

all_steps ==
    << [name |-> "Process First Day Cashflows", depends_on |-> {}],
       [name |-> "Process Credit Line Cashflows", depends_on |-> {"Process First Day Cashflows"}],
       [name |-> "Process Loan Cashflows", depends_on |-> {"Process Credit Line Cashflows"}],
       [name |-> "Balance Cashflows to Target", depends_on |-> {"Process Loan Cashflows"}],
       [name |-> "Process Overdraft Cashflows", depends_on |-> {"Balance Cashflows to Target"}],
       [name |-> "Process Investment Cashflows", depends_on |-> {"Process Overdraft Cashflows"}],
       [name |-> "Process First Day Cashflows (Re-run)", depends_on |-> {"Process Investment Cashflows"}],
       [name |-> "Calculate Time Buckets and Spread", depends_on |-> {"Process First Day Cashflows (Re-run)"}],
       [name |-> "Aggregate by Product Code", depends_on |-> {"Calculate Time Buckets and Spread"}],
       [name |-> "Create Report Contractual Table", depends_on |-> {"Aggregate by Product Code"}],
       [name |-> "Load Contractual Report", depends_on |-> {"Create Report Contractual Table"}],
       [name |-> "Align Buckets to Balance", depends_on |-> {"Load Contractual Report"}],
       [name |-> "Load Contractual Consolidated Report", depends_on |-> {"Align Buckets to Balance"}],
       [name |-> "Load Behavioural Report", depends_on |-> {"Load Contractual Consolidated Report"}],
       [name |-> "Load Rate-Sensitive Report", depends_on |-> {"Load Behavioural Report"}] >>

NumSteps == Len(TOTAL_PIPELINE_STEPS)

\* TOTAL_PIPELINE_STEPS.index(name)
StepIndex(name) == CHOOSE i \in 1..NumSteps : TOTAL_PIPELINE_STEPS[i] = name

DependsOn(name) == all_steps[StepIndex(name)].depends_on

----------------------------------------------------------------------------
(* models.py: ExecutionHistory.  A row is                                   *)
(*   id      primary key, written <<creating request, process_name>>        *)
(*   run     run_number                                                     *)
(*   name    process_name                                                   *)
(*   status  status                                                         *)
(*   start   start_time, kept as its rank among the timestamps in use       *)
(*   ended   end_time is not null                                           *)
(*   err     error_message: "none", "trace" (a step's traceback),           *)
(*           "prev" ('Previous step failed'), "exc" (str(e))                *)

NoRow == [id |-> <<0, "">>, run |-> 0, name |-> "", status |-> "None",
          start |-> 0, ended |-> FALSE, err |-> "none"]

RunnerSlots ==
    IF MaxExecutes + MaxContinues > 1 + MaxResumes
    THEN MaxExecutes + MaxContinues ELSE 1 + MaxResumes

Runners == 1..RunnerSlots

SetMax(S) == IF S = {} THEN 0 ELSE CHOOSE x \in S : \A y \in S : y <= x
SetMin(S) == CHOOSE x \in S : \A y \in S : x <= y

\* rows of one run: ExecutionHistory.objects.filter(fic_mis_date, run_number)
RunRows(h, run) == {x \in h : x.run = run}

\* unique_together = ['fic_mis_date', 'run_number', 'process_name']
KeyTaken(h, run, name) == \E x \in h : x.run = run /\ x.name = name

\* INSERT of a row: the database rejects a second row with the same key
\* (IntegrityError); the result is [ok, rows].
InsertRow(h, row) ==
    IF KeyTaken(h, row.run, row.name)
    THEN [ok |-> FALSE, rows |-> h]
    ELSE [ok |-> TRUE, rows |-> h \cup {row}]

\* Model.save() of a loaded object: UPDATE ... WHERE id = pk writes every
\* field of the object; when no row has that pk the row is INSERTed.
SaveRow(h, row) ==
    IF \E x \in h : x.id = row.id
    THEN [ok |-> TRUE, rows |-> {x \in h : x.id # row.id} \cup {row}]
    ELSE InsertRow(h, row)

\* .filter(fic_mis_date, run_number, process_name).first()
FirstRow(h, run, name) ==
    IF KeyTaken(h, run, name)
    THEN CHOOSE x \in h : x.run = run /\ x.name = name
    ELSE NoRow

\* .order_by('start_time') over the rows of a run
RECURSIVE OrderByStart(_)
OrderByStart(S) ==
    IF S = {} THEN <<>>
    ELSE LET m == CHOOSE x \in S : \A y \in S : x.start <= y.start
         IN <<m>> \o OrderByStart(S \ {m})

StatusOf(h, run, name) == FirstRow(h, run, name).status

\* The timestamps of one run: those of its rows and of the row objects that
\* requests working on the run have loaded.
TimesOf(h, rn, run) ==
    ({x.start : x \in RunRows(h, run)}
     \cup {rn[r].hist.start : r \in {q \in Runners : rn[q].hist.run = run}}) \ {0}

\* timezone.now(): later than every timestamp stored so far
Now(h, rn, run) == SetMax(TimesOf(h, rn, run)) + 1

\* start_time is only ever compared, and only between rows of one run
\* (order_by('start_time') under filter(run_number=...)), so every state
\* keeps the timestamps of a run as their ranks within that run.
Rank(t, T) == IF t = 0 THEN 0 ELSE Cardinality({u \in T : u < t}) + 1
RankRows(h, rn) ==
    {[x EXCEPT !.start = Rank(x.start, TimesOf(h, rn, x.run))] : x \in h}
RankRunners(h, rn) ==
    [r \in Runners |->
        [rn[r] EXCEPT !.hist.start =
            Rank(rn[r].hist.start, TimesOf(h, rn, rn[r].hist.run))]]

Commit(h, rn) ==
    /\ history' = RankRows(h, rn)
    /\ runner' = RankRunners(h, rn)

----------------------------------------------------------------------------
(* A request thread.                                                        *)
(*   pc        "idle", "fetch", "mark", "exec", "done"                      *)
(*   run       run_number                                                   *)
(*   cont      continue_from_step ("" for a new execution)                  *)
(*   steps     pipeline.steps (the names of remaining_steps)                *)
(*   i         position of the loop `for step in pipeline.steps`            *)
(*   hist      existing_execution / hist, the loaded row object             *)
(*   response  "none", "ok" (JsonResponse(response_data)), "error" (500)    *)
(*   failed    the step whose result was Failed, "" if none                 *)
(*   shape     the resume started from Success.., Failed, Pending..         *)

IdleRunner ==
    [pc |-> "idle", run |-> 0, cont |-> "", steps |-> <<>>, i |-> 0,
     hist |-> NoRow, response |-> "none", failed |-> "",
     shape |-> FALSE]

Active(rn, r) == rn[r].pc \notin {"idle", "done"}

\* requests are numbered in the order they arrive; the server takes a new
\* one when a worker is free
NextRunner(r) ==
    /\ runner[r].pc = "idle"
    /\ Cardinality({q \in Runners : Active(runner, q)}) < limits.active
    /\ \A q \in Runners : q < r => runner[q].pc # "idle"

RetryIdle ==
    [retry_count |-> 0, raises |-> <<>>, attempt |-> 0, pc |-> "idle",
     calls |-> 0, sleeps |-> <<>>, status |-> "None"]

PipeIdle ==
    [steps |-> <<>>, pc |-> "idle", error |-> "none", completed_steps |-> {},
     results |-> <<>>, invoked |-> <<>>]

\* the tables of steps 8..11, empty, and no run working on them
DbIdle ==
    [process |-> "", time_buckets |-> <<>>, arranged |-> {}, product_balance |-> {},
     tbm |-> {}, acc |-> {}, prod |-> {}, base |-> {}, report |-> <<>>,
     next_id |-> [tbm |-> 1, acc |-> 1, prod |-> 1, report |-> 1]]

JobIdle == <<>>

InitWith(lim) ==
    /\ history = {}
    /\ runner = [r \in Runners |-> IdleRunner]
    /\ served = [execute |-> 0, continue |-> 0, stop |-> 0]
    /\ limits = lim
    /\ stopped = {}
    /\ retry = RetryIdle
    /\ pipe = PipeIdle
    /\ db = DbIdle
    /\ job = JobIdle

\* requests of every kind, overlapping
Init ==
    InitWith([execute |-> MaxExecutes, continue |-> MaxContinues,
              active |-> MaxActive])

\* one execution and its resumes, each served to its end before the next
InitSerial ==
    InitWith([execute |-> 1, continue |-> MaxResumes, active |-> 1])

----------------------------------------------------------------------------
(* execution_service.py *)

\* ExecutionService.get_next_run_number
get_next_run_number(h, specified_run_number) ==
    IF specified_run_number # 0 THEN specified_run_number
    ELSE SetMax({x.run : x \in h}) + 1

\* ExecutionService.clear_existing_run
clear_existing_run(h, run) == h \ RunRows(h, run)

\* ExecutionService.create_running_status
create_running_status(h, r, name, run, now) ==
    InsertRow(h, [id |-> <<r, name>>, run |-> run, name |-> name,
                  status |-> "Running", start |-> now, ended |-> FALSE,
                  err |-> "none"])

\* ExecutionService.update_execution_status: the object after the assignments
UpdatedHist(hist, result) ==
    [hist EXCEPT !.status = result,
                 !.ended = TRUE,
                 !.err = IF result = "Failed" THEN "trace" ELSE @]

update_execution_status(h, hist, result) == SaveRow(h, UpdatedHist(hist, result))

\* ExecutionHistory...filter(run_number, status='Pending')
\*     .update(status='Pending', error_message=msg)
MarkPendingError(h, run, msg) ==
    {IF x.run = run /\ x.status = "Pending" THEN [x EXCEPT !.err = msg] ELSE x
     : x \in h}

----------------------------------------------------------------------------
(* execute.py: execute_view and the new-execution branch of                 *)
(* execute_functions                                                        *)

\* execute_view and execute_functions up to the loop.  next_run =
\* existing_executions.count() + 1 is passed as specified_run_number for
\* "execute again"; otherwise the service picks max(run_number) + 1.  Then
\* clear_existing_run, and the pipeline is loaded with all_steps.  The run
\* number is read and the run cleared in one step.
execute_view(r) ==
    /\ NextRunner(r)
    /\ served.execute < limits.execute
    /\ \E again \in BOOLEAN :
         LET next_run == Cardinality(history) + 1
             run_number == get_next_run_number(history, IF again THEN next_run ELSE 0)
             h == clear_existing_run(history, run_number)
             rn == [runner EXCEPT ![r] =
                      [IdleRunner EXCEPT
                          !.pc = "mark", !.run = run_number,
                          !.steps = [k \in 1..Len(all_steps) |-> all_steps[k].name],
                          !.i = 1]]
         IN Commit(h, rn)
    /\ served' = [served EXCEPT !.execute = @ + 1]
    /\ UNCHANGED <<limits, stopped, retry, pipe, dataVars>>

----------------------------------------------------------------------------
(* monitor.py: continue_execution, and the resume branch of                 *)
(* execute_functions                                                        *)

FirstWhere(ex, S) ==
    IF \E k \in 1..Len(ex) : ex[k].status \in S
    THEN ex[SetMin({k \in 1..Len(ex) : ex[k].status \in S})].name
    ELSE ""

LastWhere(ex, S) ==
    IF \E k \in 1..Len(ex) : ex[k].status \in S
    THEN ex[SetMax({k \in 1..Len(ex) : ex[k].status \in S})].name
    ELSE ""

\* continue_execution: the point to continue from ("" when there is none)
ContinuePoint(h, run) ==
    LET ex == OrderByStart(RunRows(h, run))
        bad == FirstWhere(ex, {"Failed", "Stopped"})
        last_success == LastWhere(ex, {"Success"})
    IN IF bad # "" THEN bad
       ELSE IF last_success # "" /\ StepIndex(last_success) < NumSteps
            THEN TOTAL_PIPELINE_STEPS[StepIndex(last_success) + 1]
            ELSE ""

\* continue_execution: clear any failed or stopped statuses for this run
ClearFailedStopped(h, run) ==
    {IF x.run = run /\ x.status \in {"Failed", "Stopped"}
     THEN [x EXCEPT !.status = "Pending", !.ended = FALSE, !.err = "none"]
     ELSE x : x \in h}

\* a selection that leaves out the steps with no stored row
IncludeStep_stored(status, step_name, continue_from_step) ==
    \/ status \in {"Failed", "Stopped"}
    \/ step_name = continue_from_step

\* execute_functions: is the step put on remaining_steps
IncludeStep(status, step_name, continue_from_step) ==
    \/ status = "None"
    \/ status \in {"Failed", "Stopped"}
    \/ step_name = continue_from_step

\* execute_functions: remaining_steps, as the names in pipeline order
RECURSIVE SelectFrom(_, _, _, _)
SelectFrom(h, run, continue_from_step, k) ==
    IF k > NumSteps THEN <<>>
    ELSE LET nm == all_steps[k].name
         IN (IF IncludeStep(StatusOf(h, run, nm), nm, continue_from_step)
             THEN <<nm>> ELSE <<>>)
            \o SelectFrom(h, run, continue_from_step, k + 1)

remaining_steps(h, run, continue_from_step) ==
    SelectFrom(h, run, continue_from_step, StepIndex(continue_from_step))

SeqRange(s) == {s[k] : k \in 1..Len(s)}

\* execute_functions: "ensure all steps exist in the history", from step k on;
\* every created row takes its own timezone.now()
RECURSIVE EnsureRows(_, _, _, _, _, _)
EnsureRows(h, r, run, remaining, k, now) ==
    IF k > NumSteps THEN h
    ELSE LET nm == TOTAL_PIPELINE_STEPS[k]
         IN IF ~KeyTaken(h, run, nm)
            THEN EnsureRows(
                   h \cup {[id |-> <<r, nm>>, run |-> run, name |-> nm,
                            status |-> IF nm \in remaining THEN "Pending" ELSE "Skipped",
                            start |-> now, ended |-> FALSE, err |-> "none"]},
                   r, run, remaining, k + 1, now + 1)
            ELSE IF nm \in remaining
            THEN EnsureRows(
                   {IF x.run = run /\ x.name = nm /\ x.status \in {"Failed", "Stopped"}
                    THEN [x EXCEPT !.status = "Pending", !.err = "none", !.ended = FALSE]
                    ELSE x : x \in h},
                   r, run, remaining, k + 1, now)
            ELSE EnsureRows(h, r, run, remaining, k + 1, now)

\* the history has the shape Success.., Failed, Pending-or-absent..
ResumeShape(h, run) ==
    \E k \in 1..NumSteps :
        /\ \A j \in 1..(k - 1) : StatusOf(h, run, TOTAL_PIPELINE_STEPS[j]) = "Success"
        /\ StatusOf(h, run, TOTAL_PIPELINE_STEPS[k]) = "Failed"
        /\ \A j \in (k + 1)..NumSteps :
              StatusOf(h, run, TOTAL_PIPELINE_STEPS[j]) \in {"Pending", "None"}

continue_execution(r) ==
    /\ NextRunner(r)
    /\ served.continue < limits.continue
    /\ \E run \in {x.run : x \in history} :
         LET continue_from == ContinuePoint(history, run)
             h1 == ClearFailedStopped(history, run)
             rem == remaining_steps(h1, run, continue_from)
             h2 == EnsureRows(h1, r, run, SeqRange(rem), 1, Now(history, runner, run))
             rn == [runner EXCEPT ![r] =
                      [IdleRunner EXCEPT !.pc = "fetch", !.run = run,
                                         !.cont = continue_from,
                                         !.steps = rem, !.i = 1,
                                         !.shape = ResumeShape(history, run)]]
         IN /\ continue_from # ""
            /\ Commit(h2, rn)
            /\ stopped' = {p \in stopped : p[1] # run}
    /\ served' = [served EXCEPT !.continue = @ + 1]
    /\ UNCHANGED <<limits, retry, pipe, dataVars>>

----------------------------------------------------------------------------
(* execute.py: the loop of execute_functions *)

\* pipeline._results when the loop of execute_functions has ended: the list
\* of Pipeline.__init__, to which only Pipeline.execute appends; the loop
\* calls pipeline._execute_step and keeps each result in a local variable
_results(rn, r) == <<>>

\* ExecutionService.format_response: the completed field
format_response(results) ==
    [completed |-> \A k \in DOMAIN results : results[k].status = "Success"]

\* the response is built and the request ends; the loaded objects are dropped
Finish(rn, r, response) ==
    [rn EXCEPT ![r].pc = "done", ![r].response = response,
               ![r].hist = NoRow, ![r].steps = <<>>, ![r].i = 0]

\* except Exception: the Pending rows get str(e), the response is a 500
Raise(h, rn, r) ==
    Commit(MarkPendingError(h, rn[r].run, "exc"), Finish(rn, r, "error"))

\* the loop moves to the next step, or ends and the response is returned
Advance(rn, r) ==
    IF rn[r].i >= Len(rn[r].steps)
    THEN Finish(rn, r, "ok")
    ELSE [rn EXCEPT ![r].i = @ + 1,
                    ![r].pc = IF rn[r].cont # "" THEN "fetch" ELSE "mark",
                    ![r].hist = NoRow]

\* resumed execution: existing_execution = ....first(); a step that is
\* already Success is skipped
FetchExisting(r) ==
    /\ runner[r].pc = "fetch"
    /\ IF runner[r].i > Len(runner[r].steps)
       THEN Commit(history, Finish(runner, r, "ok"))
       ELSE LET existing_execution ==
                    FirstRow(history, runner[r].run, runner[r].steps[runner[r].i])
            IN IF existing_execution.status = "Success"
               THEN Commit(history, Advance(runner, r))
               ELSE Commit(history, [runner EXCEPT ![r].pc = "mark",
                                                   ![r].hist = existing_execution])
    /\ UNCHANGED <<served, limits, stopped, retry, pipe, dataVars>>

\* the row of the step becomes Running (an existing row is saved, otherwise
\* create_running_status), and the step function is invoked
MarkRunning(r) ==
    /\ runner[r].pc = "mark"
    /\ LET name == runner[r].steps[runner[r].i]
           now == Now(history, runner, runner[r].run)
           res == IF runner[r].hist # NoRow
                  THEN SaveRow(history,
                               [runner[r].hist EXCEPT !.status = "Running",
                                                      !.start = now,
                                                      !.ended = FALSE,
                                                      !.err = "none"])
                  ELSE create_running_status(history, r, name, runner[r].run, now)
           hist == CHOOSE x \in res.rows : x.run = runner[r].run /\ x.name = name
       IN IF res.ok
          THEN Commit(res.rows, [runner EXCEPT ![r].pc = "exec",
                                               ![r].hist = hist])
          ELSE Raise(history, runner, r)
    /\ UNCHANGED <<served, limits, stopped, retry, pipe, dataVars>>

\* pipeline._execute_step returns; update_execution_status; a Failed result
\* ends the loop
StepReturns(r) ==
    /\ runner[r].pc = "exec"
    /\ \E result \in {"Success", "Failed"} :
         LET res == update_execution_status(history, runner[r].hist, result)
         IN IF ~res.ok
            THEN Raise(history, runner, r)
            ELSE IF result = "Failed"
            THEN Commit(MarkPendingError(res.rows, runner[r].run, "prev"),
                        Finish([runner EXCEPT ![r].failed = runner[r].steps[runner[r].i]],
                               r, "ok"))
            ELSE Commit(res.rows, Advance(runner, r))
    /\ UNCHANGED <<served, limits, stopped, retry, pipe, dataVars>>

----------------------------------------------------------------------------
(* monitor.py: stop_execution *)

stop_execution ==
    /\ served.stop < MaxStops
    /\ \E run \in {x.run : x \in history} :
         LET running_executions == {x \in RunRows(history, run) : x.status = "Running"}
             current_step == OrderByStart(running_executions)[1].name
             h == {IF x \in running_executions
                   THEN [x EXCEPT !.status = "Stopped", !.ended = TRUE]
                   ELSE x : x \in history}
         IN /\ running_executions # {}
            /\ Commit(h, runner)
            /\ stopped' = {p \in stopped : p[1] # run} \cup {<<run, current_step>>}
    /\ served' = [served EXCEPT !.stop = @ + 1]
    /\ UNCHANGED <<limits, retry, pipe, dataVars>>

----------------------------------------------------------------------------

Next ==
    \/ \E r \in Runners : execute_view(r)
    \/ \E r \in Runners : continue_execution(r)
    \/ \E r \in Runners : FetchExisting(r)
    \/ \E r \in Runners : MarkRunning(r)
    \/ \E r \in Runners : StepReturns(r)
    \/ stop_execution

Spec == Init /\ [][Next]_vars

NextSerial ==
    \/ \E r \in Runners : execute_view(r)
    \/ \E r \in Runners : continue_execution(r)
    \/ \E r \in Runners : FetchExisting(r)
    \/ \E r \in Runners : MarkRunning(r)
    \/ \E r \in Runners : StepReturns(r)

SpecSerial == InitSerial /\ [][NextSerial]_vars

\* one execution, its resumes and stop requests: each execute or continue
\* request is served to its end before the next one is taken, a stop request
\* comes at any time
InitRequests ==
    InitWith([execute |-> 1, continue |-> MaxContinues, active |-> 1])

SpecRequests == InitRequests /\ [][Next]_vars

----------------------------------------------------------------------------
(* pipeline.py: Pipeline._execute_step.                                     *)
(*   retry_count  step.retry_count                                          *)
(*   raises       the step function: raises[k] says the k-th call raises    *)
(*   attempt      the loop variable of `for attempt in range(retry_count)`  *)
(*   pc           "loop", "sleep", "done"                                   *)
(*   calls        calls of step.function made so far                        *)
(*   sleeps       the arguments of time.sleep, in order                     *)
(*   status       status of the returned PipelineResult; "None" when the    *)
(*                method has not returned one                               *)

RetryInputs ==
    UNION { { [RetryIdle EXCEPT !.pc = "loop", !.retry_count = n, !.raises = f]
              : f \in [1..n -> BOOLEAN] }
            : n \in 0..MaxRetry }

IdleLimits == [execute |-> 0, continue |-> 0, active |-> 0]

InitRetry ==
    /\ history = {}
    /\ runner = [r \in Runners |-> IdleRunner]
    /\ served = [execute |-> 0, continue |-> 0, stop |-> 0]
    /\ limits = IdleLimits
    /\ stopped = {}
    /\ pipe = PipeIdle
    /\ retry \in RetryInputs
    /\ db = DbIdle
    /\ job = JobIdle

\* if attempt == step.retry_count - 1:  # Last attempt
IsLastAttempt(attempt, retry_count) == attempt = retry_count - 1

\* a backoff that grows linearly
BackoffSeconds_linear(attempt) == 2 * attempt

\* time.sleep(2 ** attempt)
BackoffSeconds(attempt) == 2 ^ attempt

\* one pass of the loop body: the function is called; it returns, or raises
\* on the last attempt, or raises with attempts left
CallStepFunction ==
    /\ retry.pc = "loop"
    /\ retry.attempt < retry.retry_count
    /\ retry' =
         IF ~retry.raises[retry.attempt + 1]
         THEN [retry EXCEPT !.calls = @ + 1, !.status = "Success", !.pc = "done"]
         ELSE IF IsLastAttempt(retry.attempt, retry.retry_count)
         THEN [retry EXCEPT !.calls = @ + 1, !.status = "Failed", !.pc = "done"]
         ELSE [retry EXCEPT !.calls = @ + 1, !.pc = "sleep"]
    /\ UNCHANGED <<runnerVars, pipe, dataVars>>

\* wait before retrying
BackoffSleep ==
    /\ retry.pc = "sleep"
    /\ retry' = [retry EXCEPT !.sleeps = Append(@, BackoffSeconds(retry.attempt)),
                              !.attempt = @ + 1,
                              !.pc = "loop"]
    /\ UNCHANGED <<runnerVars, pipe, dataVars>>

\* range(retry_count) is exhausted: the method falls off its end
LoopExhausted ==
    /\ retry.pc = "loop"
    /\ retry.attempt >= retry.retry_count
    /\ retry' = [retry EXCEPT !.pc = "done"]
    /\ UNCHANGED <<runnerVars, pipe, dataVars>>

NextRetry ==
    \/ CallStepFunction
    \/ BackoffSleep
    \/ LoopExhausted

SpecRetry == InitRetry /\ [][NextRetry]_vars

----------------------------------------------------------------------------
(* pipeline.py: Pipeline.validate_dependencies and Pipeline.execute.        *)
(* Steps are named 1..n; 0 is a name no step has.  depends_on is kept as a  *)
(* set: the order of the list only decides which dependency is searched     *)
(* first.                                                                   *)
(*   steps            self.steps, records [name, depends_on]                *)
(*   pc               "validate", "loop", "raised", "returned"              *)
(*   error            "none", "ValueError", "RuntimeError"                  *)
(*   completed_steps  completed_steps                                       *)
(*   results          statuses of self._results                             *)
(*   invoked          names of the steps whose function was invoked         *)

\* the sets of at most k elements of S
RECURSIVE SmallSubsets(_, _)
SmallSubsets(S, k) ==
    IF k = 0 THEN {{}}
    ELSE LET smaller == SmallSubsets(S, k - 1)
         IN smaller \cup {D \cup {e} : D \in smaller, e \in S}

\* the pipelines of n steps whose depends_on lists hold at most MaxDeps
\* entries together
PipelinesOf(n) ==
    { [PipeIdle EXCEPT !.pc = "validate",
                       !.steps = [k \in 1..n |->
                                    [name |-> k,
                                     depends_on |-> {dep \in 0..n : <<k, dep>> \in E}]]]
      : E \in SmallSubsets((1..n) \X (0..n), MaxDeps) }

PipeInputs == UNION {PipelinesOf(n) : n \in 1..MaxPipeSteps}

InitPipeline ==
    /\ history = {}
    /\ runner = [r \in Runners |-> IdleRunner]
    /\ served = [execute |-> 0, continue |-> 0, stop |-> 0]
    /\ limits = IdleLimits
    /\ stopped = {}
    /\ retry = RetryIdle
    /\ pipe \in PipeInputs
    /\ db = DbIdle
    /\ job = JobIdle

\* next(s for s in self.steps if s.name == step_name)
StepNamed(steps, step_name) ==
    steps[SetMin({k \in 1..Len(steps) : steps[k].name = step_name})]

\* validate_dependencies, first loop: a dependency that is no step's name
HasMissingDependency(steps) ==
    LET step_names == {steps[k].name : k \in 1..Len(steps)}
    IN \E k \in 1..Len(steps) : \E dep \in steps[k].depends_on : dep \notin step_names

\* validate_dependencies.has_cycle, with the sets visited and temp_visited it
\* shares between calls; the result is [found, visited, temp_visited]
RECURSIVE has_cycle(_, _, _)
RECURSIVE has_cycle_in(_, _, _)
\* a search that takes a step met again on the current path for a finished one
has_cycle_revisit(steps, step_name, st) ==
    IF step_name \in st.temp_visited \/ step_name \in st.visited
    THEN [st EXCEPT !.found = FALSE]
    ELSE LET entered == [st EXCEPT !.temp_visited = @ \cup {step_name}]
             after == has_cycle_in(steps, StepNamed(steps, step_name).depends_on, entered)
         IN IF after.found THEN after
            ELSE [found |-> FALSE,
                  visited |-> after.visited \cup {step_name},
                  temp_visited |-> after.temp_visited \ {step_name}]

has_cycle(steps, step_name, st) ==
    IF step_name \in st.temp_visited THEN [st EXCEPT !.found = TRUE]
    ELSE IF step_name \in st.visited THEN [st EXCEPT !.found = FALSE]
    ELSE LET entered == [st EXCEPT !.temp_visited = @ \cup {step_name}]
             after == has_cycle_in(steps, StepNamed(steps, step_name).depends_on, entered)
         IN IF after.found THEN after
            ELSE [found |-> FALSE,
                  visited |-> after.visited \cup {step_name},
                  temp_visited |-> after.temp_visited \ {step_name}]

\* for dep in step.depends_on: if has_cycle(dep): return True
has_cycle_in(steps, deps, st) ==
    IF deps = {} THEN [st EXCEPT !.found = FALSE]
    ELSE LET dep == SetMin(deps)
             after == has_cycle(steps, dep, st)
         IN IF after.found THEN after
            ELSE has_cycle_in(steps, deps \ {dep}, after)

\* validate_dependencies, second loop, from step k on
RECURSIVE AnyCycleFrom(_, _, _)
AnyCycleFrom(steps, k, st) ==
    IF k > Len(steps) THEN FALSE
    ELSE LET after == has_cycle(steps, steps[k].name, st)
         IN IF after.found THEN TRUE ELSE AnyCycleFrom(steps, k + 1, after)

\* validate_dependencies raises ValueError
validate_dependencies(steps) ==
    \/ HasMissingDependency(steps)
    \/ AnyCycleFrom(steps, 1, [found |-> FALSE, visited |-> {}, temp_visited |-> {}])

\* execute: self.validate_dependencies()
PipeValidate ==
    /\ pipe.pc = "validate"
    /\ pipe' = IF validate_dependencies(pipe.steps)
               THEN [pipe EXCEPT !.pc = "raised", !.error = "ValueError"]
               ELSE [pipe EXCEPT !.pc = "loop"]
    /\ UNCHANGED <<runnerVars, retry, dataVars>>

\* execute: the steps that are not completed and whose dependencies all are
Eligible(p) ==
    {k \in 1..Len(p.steps) :
        /\ p.steps[k].name \notin p.completed_steps
        /\ \A dep \in p.steps[k].depends_on : dep \in p.completed_steps}

\* execute, one pass of the while loop: the first eligible step is executed
\* (RuntimeError when there is none); a result that is not Success ends the loop
PipeExecuteStep ==
    /\ pipe.pc = "loop"
    /\ Cardinality(pipe.completed_steps) < Len(pipe.steps)
    /\ IF Eligible(pipe) = {}
       THEN pipe' = [pipe EXCEPT !.pc = "raised", !.error = "RuntimeError"]
       ELSE \E status \in {"Success", "Failed"} :
              LET next_step == pipe.steps[SetMin(Eligible(pipe))]
              IN pipe' = [pipe EXCEPT
                            !.invoked = Append(@, next_step.name),
                            !.results = Append(@, status),
                            !.completed_steps =
                                IF status = "Success" THEN @ \cup {next_step.name} ELSE @,
                            !.pc = IF status = "Success" THEN "loop" ELSE "returned"]
    /\ UNCHANGED <<runnerVars, retry, dataVars>>

\* execute: the while condition fails, self._results is returned
PipeReturn ==
    /\ pipe.pc = "loop"
    /\ Cardinality(pipe.completed_steps) >= Len(pipe.steps)
    /\ pipe' = [pipe EXCEPT !.pc = "returned"]
    /\ UNCHANGED <<runnerVars, retry, dataVars>>

NextPipeline ==
    \/ PipeValidate
    \/ PipeExecuteStep
    \/ PipeReturn

SpecPipeline == InitPipeline /\ [][NextPipeline]_vars

\* the pipelines add_step can build in which a name is given to two steps:
\* n steps, step k named k or, for one k, named as step 1 is, with at most
\* one depends_on entry in all
NamedPipelinesOf(n) ==
    { [PipeIdle EXCEPT !.pc = "validate",
                       !.steps = [k \in 1..n |->
                                    [name |-> IF k = twin THEN 1 ELSE k,
                                     depends_on |-> {dep \in 0..n : <<k, dep>> \in E}]]]
      : twin \in 1..n, E \in SmallSubsets((1..n) \X (0..n), 1) }

NamedPipeInputs == UNION {NamedPipelinesOf(n) : n \in 1..MaxPipeSteps}

InitNamed ==
    /\ history = {}
    /\ runner = [r \in Runners |-> IdleRunner]
    /\ served = [execute |-> 0, continue |-> 0, stop |-> 0]
    /\ limits = IdleLimits
    /\ stopped = {}
    /\ retry = RetryIdle
    /\ pipe \in NamedPipeInputs
    /\ db = DbIdle
    /\ job = JobIdle

\* Pipeline.execute runs to its return or to the exception it raises: the
\* loop is one thread that nothing suspends
SpecNamed == InitNamed /\ [][NextPipeline]_vars /\ WF_vars(NextPipeline)

----------------------------------------------------------------------------
(* Steps 8..11 of the pipeline, for runs of two snapshot dates over the     *)
(* shared database:                                                         *)
(*   calculate_time_buckets_and_spread   cashflow_acc_aggr.py               *)
(*   aggregate_by_prod_code              cashflow_prod_aggr.py              *)
(*   create_report_contractual_table     report_loader.py                   *)
(*   report_contractual_load             report_loader.py                   *)
(* A date is <<year, month, day>>.  db holds the tables:                    *)
(*   process       name of the first alm_Process row ("" when none)         *)
(*   time_buckets  Time_buckets rows, in serial_number order                *)
(*   arranged      Arranged_cashflows rows                                  *)
(*   product_balance  product_balance rows                                  *)
(*   tbm           Time_Bucket_Master rows                                  *)
(*   acc           Fsi_Aggregated_Acc_Cashflow rows                         *)
(*   prod          Fsi_Aggregated_Prod_Cashflow rows                        *)
(*   base          bucket_* columns of Report_Contractual_Base              *)
(*   report        Report_Contractual_<YYYYMMDD>, by snapshot date          *)
(*   next_id       the id sequences of tbm, acc, prod and of the report     *)
(*                 tables (one sequence, copied with the base table)        *)
(* Amounts are numbers of hundredths, the scale of the NUMERIC(20,2) and    *)
(* DecimalField(decimal_places=2) columns.                                  *)

IsLeap(y) == (y % 4 = 0 /\ y % 100 # 0) \/ y % 400 = 0

DaysInMonth(y, m) ==
    IF m = 2 THEN (IF IsLeap(y) THEN 29 ELSE 28)
    ELSE IF m \in {4, 6, 9, 11} THEN 30 ELSE 31

\* the next range starting on the day the previous one ends
SameDay(date) == date

\* date + timedelta(days=1)
NextDay(date) ==
    IF date[3] < DaysInMonth(date[1], date[2]) THEN <<date[1], date[2], date[3] + 1>>
    ELSE IF date[2] < 12 THEN <<date[1], date[2] + 1, 1>>
    ELSE <<date[1] + 1, 1, 1>>

\* date - timedelta(days=1)
PrevDay(date) ==
    IF date[3] > 1 THEN <<date[1], date[2], date[3] - 1>>
    ELSE IF date[2] > 1 THEN <<date[1], date[2] - 1, DaysInMonth(date[1], date[2] - 1)>>
    ELSE <<date[1] - 1, 12, 31>>

\* date + timedelta(days=n)
RECURSIVE AddDays(_, _)
AddDays(date, n) ==
    IF n = 0 THEN date
    ELSE IF n > 0 THEN AddDays(NextDay(date), n - 1)
    ELSE AddDays(PrevDay(date), n + 1)

\* date + relativedelta(months=n): the day is cut to the length of the month
AddMonths(date, n) ==
    LET total == date[1] * 12 + (date[2] - 1) + n
        y == total \div 12
        m == (total % 12) + 1
        last == DaysInMonth(y, m)
    IN <<y, m, IF date[3] > last THEN last ELSE date[3]>>

\* date + relativedelta(years=n)
AddYears(date, n) == AddMonths(date, 12 * n)

\* f"{date:%Y%m%d}" read as a number
DateKey(date) == date[1] * 10000 + date[2] * 100 + date[3]

DateLE(a, b) == DateKey(a) <= DateKey(b)

\* report_buckets.bucket_column_name: bucket_<number>_<start>_<end>
bucket_column_name(bucket) ==
    <<"bucket", bucket.bucket_number, DateKey(bucket.start_date), DateKey(bucket.end_date)>>

\* the snapshot dates of the two runs
SnapshotDates == {<<2024, 1, 31>>, <<2024, 2, 29>>}

\* the three financial elements spread into buckets
financial_elements ==
    <<"n_total_cash_flow_amount", "n_total_principal_payment", "n_total_interest_payment">>

\* Aggregated_Acc_CashflowByBuckets has the columns bucket_1 .. bucket_50
max_target_buckets == 50

\* PipelineStep.retry_count, never set by execute_functions
DefaultRetryCount == 3

\* one Time_buckets row: frequency and multiplier
BucketChoices ==
    { [frequency |-> 7, multiplier |-> "Days"],
      [frequency |-> 1, multiplier |-> "Months"],
      [frequency |-> 1, multiplier |-> "Years"],
      [frequency |-> 2, multiplier |-> "Weeks"] }

RECURSIVE SeqsUpTo(_, _)
SeqsUpTo(S, n) ==
    IF n = 0 THEN {<<>>}
    ELSE LET shorter == SeqsUpTo(S, n - 1)
         IN shorter \cup {Append(s, x) : s \in shorter, x \in S}

\* the k-th candidate Arranged_cashflows row of a snapshot date
ArrangedRow(date, k) ==
    [fic_mis_date |-> date, v_account_number |-> k, v_prod_code |-> "P1",
     v_ccy_code |-> "USD",
     d_cashflow_date |-> AddDays(date, 7 * k - 4),
     n_total_cash_flow_amount |-> 10 * k,
     n_total_principal_payment |-> 8 * k,
     n_total_interest_payment |-> 2 * k,
     record_count |-> 0]

ArrangedInputs ==
    {UNION {{ArrangedRow(date, k) : k \in pick[date]} : date \in SnapshotDates}
        : pick \in [SnapshotDates -> SUBSET (1..MaxCashflows)]}

\* SQL NULL, and a value v that is not NULL
Null == <<>>
NotNull(v) == <<v>>

\* the result of align_buckets_to_balance before any row is processed
NoResult ==
    [error |-> "", processed |-> 0, within_tolerance |-> 0,
     adjusted_rows |-> <<>>, missing_rows |-> <<>>, error_rows |-> <<>>]

\* a pipeline at step 8: its position, the attempts made of the step, the
\* bucket metadata the loader has read, the result of the reconciler
NewJob ==
    [pc |-> "spread", attempt |-> 0, meta |-> <<>>,
     result |-> [NoResult EXCEPT !.error = "not run"]]

NoTable == [exists |-> FALSE, cols |-> {}, rows |-> <<>>]

InitData ==
    /\ history = {}
    /\ runner = [r \in Runners |-> IdleRunner]
    /\ served = [execute |-> 0, continue |-> 0, stop |-> 0]
    /\ limits = IdleLimits
    /\ stopped = {}
    /\ retry = RetryIdle
    /\ pipe = PipeIdle
    /\ \E name \in {"contractual", "forecast"} :
       \E buckets \in SeqsUpTo(BucketChoices, MaxBuckets) :
       \E rows \in ArrangedInputs :
          db = [DbIdle EXCEPT
                  !.process = name,
                  !.time_buckets = [k \in 1..Len(buckets) |->
                                      [serial_number |-> k,
                                       frequency |-> buckets[k].frequency,
                                       multiplier |-> buckets[k].multiplier]],
                  !.arranged = rows,
                  !.report = [date \in SnapshotDates |-> NoTable]]
    /\ job = [date \in SnapshotDates |-> NewJob]

\* _build_bucket_ranges: the (start, end) pairs from row k on, or the
\* ValueError of an unsupported multiplier
RECURSIVE BuildRangesFrom(_, _, _, _)
BuildRangesFrom(start, tb_rows, k, ranges) ==
    IF k > Len(tb_rows) THEN [ok |-> TRUE, ranges |-> ranges]
    ELSE LET tb == tb_rows[k]
         IN IF tb.multiplier \notin {"Days", "Months", "Years"}
            THEN [ok |-> FALSE, ranges |-> <<>>]
            ELSE LET end == IF tb.multiplier = "Days" THEN AddDays(start, tb.frequency)
                            ELSE IF tb.multiplier = "Months" THEN AddMonths(start, tb.frequency)
                            ELSE AddYears(start, tb.frequency)
                 IN BuildRangesFrom(NextDay(end), tb_rows, k + 1,
                                    Append(ranges, <<start, end>>))

_build_bucket_ranges(anchor_date, tb_rows) ==
    BuildRangesFrom(anchor_date, tb_rows, 1, <<>>)

\* Model.objects.filter(...).delete() on TimeBucketMaster rows: the rows that
\* point at them (on_delete=CASCADE) go too
DeleteTbm(d, gone) ==
    LET ids == {t.id : t \in gone}
        acc_gone == {a \in d.acc : a.time_bucket_master \in ids}
        acc_ids == {a.id : a \in acc_gone}
    IN [d EXCEPT !.tbm = @ \ gone,
                 !.acc = @ \ acc_gone,
                 !.prod = {p \in @ : /\ p.time_bucket_master \notin ids
                                     /\ p.cashflow_by_bucket \notin acc_ids}]

\* filter(...).delete() on Aggregated_Acc_CashflowByBuckets rows, with cascade
DeleteAcc(d, gone) ==
    LET acc_ids == {a.id : a \in gone}
    IN [d EXCEPT !.acc = @ \ gone,
                 !.prod = {p \in @ : p.cashflow_by_bucket \notin acc_ids}]

\* _refresh_timebucket_master: delete the rows of (process, fic_mis_date),
\* bulk_create one row per range
_refresh_timebucket_master(d, process, ranges, fic_mis_date) ==
    LET cleared == DeleteTbm(d, {t \in d.tbm : /\ t.process_name = process
                                               /\ t.fic_mis_date = fic_mis_date})
        first == d.next_id.tbm
        objs == {[id |-> first + i - 1, process_name |-> process, bucket_number |-> i,
                  start_date |-> ranges[i][1], end_date |-> ranges[i][2],
                  fic_mis_date |-> fic_mis_date] : i \in 1..Len(ranges)}
    IN [cleared EXCEPT !.tbm = @ \cup objs,
                       !.next_id.tbm = first + Len(ranges)]

\* SUM(CASE WHEN start <= d_cashflow_date <= end THEN element ELSE 0 END)
RECURSIVE SumInRange(_, _, _)
SumInRange(rows, element, range) ==
    IF rows = {} THEN 0
    ELSE LET r == CHOOSE x \in rows : TRUE
             amt == IF DateLE(range[1], r.d_cashflow_date) /\ DateLE(r.d_cashflow_date, range[2])
                    THEN r[element] ELSE 0
         IN amt + SumInRange(rows \ {r}, element, range)

\* position of x in the increasing order of the set S of numbers
RankIn(x, S) == Cardinality({y \in S : y <= x})

\* the body of calculate_time_buckets_and_spread: ok is FALSE when it raises,
\* and db is then what its statements had written up to there
spread_body(d, fic_mis_date) ==
    LET process == "contractual"
        flagged == [d EXCEPT !.arranged =
                       {IF r.fic_mis_date = fic_mis_date
                        THEN [r EXCEPT !.record_count = 1] ELSE r : r \in @}]
        tb_meta == d.time_buckets
        built == _build_bucket_ranges(fic_mis_date, tb_meta)
    IN IF tb_meta = <<>> \/ ~built.ok THEN [ok |-> FALSE, db |-> flagged]
       ELSE
       LET bucket_ranges == built.ranges
           refreshed == _refresh_timebucket_master(flagged, process, bucket_ranges, fic_mis_date)
           wiped == DeleteAcc(refreshed, {a \in refreshed.acc :
                                             /\ a.fic_mis_date = fic_mis_date
                                             /\ a.process_name = process})
           own == {t \in wiped.tbm : t.process_name = process /\ t.fic_mis_date = fic_mis_date}
           tb_master_id == IF own = {} THEN 0 ELSE SetMin({t.id : t \in own})
           use_bucket_count == IF Len(bucket_ranges) < max_target_buckets
                               THEN Len(bucket_ranges) ELSE max_target_buckets
           src == {r \in wiped.arranged : r.fic_mis_date = fic_mis_date /\ r.record_count = 1}
           accounts == {r.v_account_number : r \in src}
           first == wiped.next_id.acc
           inserted ==
               {[id |-> first + (e - 1) * Cardinality(accounts) + RankIn(a, accounts) - 1,
                 fic_mis_date |-> fic_mis_date, process_name |-> process,
                 v_account_number |-> a,
                 v_prod_code |-> (CHOOSE r \in src : r.v_account_number = a).v_prod_code,
                 v_ccy_code |-> (CHOOSE r \in src : r.v_account_number = a).v_ccy_code,
                 financial_element |-> financial_elements[e],
                 time_bucket_master |-> tb_master_id,
                 buckets |-> [i \in 1..use_bucket_count |->
                                SumInRange({r \in src : r.v_account_number = a},
                                           financial_elements[e], bucket_ranges[i])]]
                : e \in 1..Len(financial_elements), a \in accounts}
       IN [ok |-> TRUE,
           db |-> [wiped EXCEPT !.acc = @ \cup inserted,
                                !.next_id.acc = first + Len(financial_elements) * Cardinality(accounts)]]

\* a function without @transaction.atomic: every statement is committed as
\* it is executed
transaction_autocommit(before, res) == res

\* @transaction.atomic: the writes of a body that raised are rolled back
transaction_atomic(before, res) ==
    IF res.ok THEN res ELSE [ok |-> FALSE, db |-> before]

\* calculate_time_buckets_and_spread(fic_mis_date)
calculate_time_buckets_and_spread(d, fic_mis_date) ==
    transaction_atomic(d, spread_body(d, fic_mis_date))

\* Sum("bucket_i") over the rows of a group
RECURSIVE SumBucket(_, _)
SumBucket(rows, i) ==
    IF rows = {} THEN 0
    ELSE LET r == CHOOSE x \in rows : TRUE
         IN r.buckets[i] + SumBucket(rows \ {r}, i)

\* aggregate_by_prod_code, the transaction of lines 43-114: the rows of the
\* date are replaced by one row per product and financial element; synced
\* tells whether sync_bucket_columns is reached (not after the early return)
AggregateRows(d, fic_mis_date) ==
    LET process_name == "contractual"
        wiped == [d EXCEPT !.prod = {p \in @ : ~(/\ p.fic_mis_date = fic_mis_date
                                                 /\ p.process_name = process_name)}]
        bucket_qs == {a \in d.acc : a.fic_mis_date = fic_mis_date /\ a.process_name = process_name}
    IN IF bucket_qs = {} THEN [synced |-> FALSE, db |-> wiped]
       ELSE
       LET masters == {t \in d.tbm : t.process_name = process_name}
           tb_master == IF masters = {} THEN 0 ELSE SetMin({t.id : t \in masters})
           prods == {a.v_prod_code : a \in bucket_qs}
           width == Len((CHOOSE a \in bucket_qs : TRUE).buckets)
           group(p, e) == {a \in bucket_qs : /\ a.v_prod_code = p
                                             /\ a.financial_element = financial_elements[e]}
           first == d.next_id.prod
           \* the products in the order of their first account row
           order(p) == RankIn(SetMin({a.id : a \in group(p, 1)}),
                              {SetMin({a.id : a \in group(q, 1)}) : q \in prods})
           objs == {[id |-> first + (order(p) - 1) * Len(financial_elements) + e - 1,
                     fic_mis_date |-> fic_mis_date, process_name |-> process_name,
                     v_prod_code |-> p,
                     v_ccy_code |-> (CHOOSE a \in group(p, e) : TRUE).v_ccy_code,
                     financial_element |-> financial_elements[e],
                     cashflow_by_bucket |-> SetMin({a.id : a \in group(p, e)}),
                     time_bucket_master |-> tb_master,
                     buckets |-> [i \in 1..width |-> SumBucket(group(p, e), i)]]
                    : p \in prods, e \in 1..Len(financial_elements)}
       IN [synced |-> TRUE,
           db |-> [wiped EXCEPT !.prod = @ \cup objs,
                                !.next_id.prod = first + Cardinality(objs)]]

\* sync_bucket_columns() on Report_Contractual_Base: every bucket_* column is
\* dropped, then one is added per TimeBucketMaster row of the default process
sync_bucket_columns(d) ==
    LET process_name == d.process
    IN [d EXCEPT !.base = {bucket_column_name(bucket) :
                              bucket \in {t \in d.tbm : t.process_name = process_name}}]

\* create_report_contractual_table: DROP TABLE IF EXISTS, CREATE TABLE LIKE base
create_report_contractual_table(d, fic_mis_date) ==
    [d EXCEPT !.report[fic_mis_date] = [exists |-> TRUE, cols |-> d.base, rows |-> <<>>]]

\* report_contractual_load, lines 98-102: the dictionaries {bucket_number: row}
\* the unordered query can give
BucketMetas(d) ==
    LET rows == {t \in d.tbm : t.process_name = "contractual"}
        numbers == {t.bucket_number : t \in rows}
    IN {m \in [numbers -> rows] : \A n \in numbers : m[n].bucket_number = n}

\* the dyn dictionary of one source row: column name -> amount
DynOf(src, bucket_meta) ==
    LET used == {n \in 1..max_target_buckets :
                   /\ n <= Len(src.buckets)
                   /\ src.buckets[n] # 0
                   /\ n \in DOMAIN bucket_meta}
    IN [c \in {bucket_column_name(bucket_meta[n]) : n \in used} |->
          src.buckets[CHOOSE n \in used : bucket_column_name(bucket_meta[n]) = c]]

\* UPDATE target SET dyn WHERE fic_mis_date, process_name, v_prod_code,
\* v_ccy_code, financial_element match
UpdateRows(rows, src, dyn) ==
    [k \in 1..Len(rows) |->
        IF /\ rows[k].fic_mis_date = src.fic_mis_date
           /\ rows[k].process_name = src.process_name
           /\ rows[k].v_prod_code = src.v_prod_code
           /\ rows[k].v_ccy_code = src.v_ccy_code
           /\ rows[k].financial_element = src.financial_element
        THEN [rows[k] EXCEPT !.vals =
                 [c \in DOMAIN @ \cup DOMAIN dyn |-> IF c \in DOMAIN dyn THEN dyn[c] ELSE @[c]]]
        ELSE rows[k]]

\* the loop of report_contractual_load over the source rows, in id order;
\* ok turns FALSE at an UPDATE that names a column the table does not have.
\* next is the id the table's sequence gives to the next inserted row; a
\* bucket column the row was not given a value for is NULL, that is, absent
\* from vals.
RECURSIVE LoadFrom(_, _, _, _)
LoadFrom(table, todo, bucket_meta, next) ==
    IF todo = {} THEN [ok |-> TRUE, table |-> table, next |-> next]
    ELSE LET src == CHOOSE s \in todo : \A o \in todo : s.id <= o.id
             inserted == Append(table.rows,
                                [id |-> next,
                                 fic_mis_date |-> src.fic_mis_date,
                                 process_name |-> src.process_name,
                                 v_prod_code |-> src.v_prod_code,
                                 v_ccy_code |-> src.v_ccy_code,
                                 financial_element |-> src.financial_element,
                                 cashflow_by_bucket |-> src.id,
                                 time_bucket_master |-> src.time_bucket_master,
                                 n_adjusted_cash_flow_amount |-> Null,
                                 vals |-> <<>>])
             dyn == DynOf(src, bucket_meta)
         IN IF ~(DOMAIN dyn \subseteq table.cols)
            THEN [ok |-> FALSE, table |-> table, next |-> next + 1]
            ELSE LoadFrom([table EXCEPT !.rows = UpdateRows(inserted, src, dyn)],
                          todo \ {src}, bucket_meta, next + 1)

\* report_contractual_load, the transaction of lines 126-258
report_contractual_load(d, fic_mis_date, bucket_meta) ==
    LET src_qs == {p \in d.prod : /\ p.fic_mis_date = fic_mis_date
                                  /\ p.process_name = "contractual"
                                  /\ p.financial_element = "n_total_cash_flow_amount"}
        target == d.report[fic_mis_date]
        loaded == LoadFrom(target, src_qs, bucket_meta, d.next_id.report)
    IN IF src_qs # {} /\ ~target.exists THEN [ok |-> FALSE, db |-> d]
       ELSE IF loaded.ok
       THEN [ok |-> TRUE, db |-> [d EXCEPT !.report[fic_mis_date] = loaded.table,
                                           !.next_id.report = loaded.next]]
       ELSE [ok |-> FALSE, db |-> [d EXCEPT !.next_id.report = loaded.next]]

\* Decimal(x).quantize(Decimal('0.01'), ROUND_HALF_UP) of a number of
\* thousandths: the number of hundredths, halves rounded away from zero
quantize(thousandths) ==
    IF thousandths >= 0 THEN (thousandths + 5) \div 10
    ELSE -((5 - thousandths) \div 10)

abs(x) == IF x < 0 THEN -x ELSE x

RECURSIVE SumSeq(_)
SumSeq(s) == IF s = <<>> THEN 0 ELSE Head(s) + SumSeq(Tail(s))

\* ALTER TABLE ... ADD COLUMN in the ORDER BY bucket_number of
\* sync_bucket_columns: the orders the bucket columns of a table can have
\* (rows of two snapshot dates that share a bucket number come in any order)
ColumnOrders(cols) ==
    {s \in [1..Cardinality(cols) -> cols] :
        \A i, j \in 1..Cardinality(cols) : i < j => s[i] # s[j] /\ s[i][2] <= s[j][2]}

\* the name of the foreign-key column cashflow_by_bucket_id, written as the
\* bucket column names are
cashflow_by_bucket_id == <<"cashflow_by_bucket_id">>

\* _bucket_columns: the columns of the table that match one of the patterns,
\* by ordinal position. The static columns come first; of them only
\* cashflow_by_bucket_id matches (ILIKE 'c_%': a c, any character, anything).
_bucket_columns(dynamic) == <<cashflow_by_bucket_id>> \o dynamic

\* max(candidates, key=...): the first index among those of largest absolute value
FirstLargest(candidates, bucket_values) ==
    CHOOSE i \in candidates :
        \A j \in candidates : \/ abs(bucket_values[j]) < abs(bucket_values[i])
                              \/ abs(bucket_values[j]) = abs(bucket_values[i]) /\ i <= j

\* Strategy 1 restricted to buckets of strictly the sign of the difference
best_bucket_strict(difference, bucket_values) ==
    LET all == 1..Len(bucket_values)
        same_sign_candidates ==
            {i \in all : \/ difference > 0 /\ bucket_values[i] > 0
                         \/ difference < 0 /\ bucket_values[i] < 0}
    IN IF same_sign_candidates # {} THEN FirstLargest(same_sign_candidates, bucket_values)
       ELSE FirstLargest(all, bucket_values)

\* lines 322-338: the index of the bucket to adjust
best_bucket(difference, bucket_values) ==
    LET all == 1..Len(bucket_values)
        same_sign_candidates ==
            {i \in all : \/ difference > 0 /\ bucket_values[i] >= 0
                         \/ difference < 0 /\ bucket_values[i] < 0}
    IN IF same_sign_candidates # {} THEN FirstLargest(same_sign_candidates, bucket_values)
       ELSE FirstLargest(all, bucket_values)

\* the value a row has in a bucket column, NULL read as 0 (COALESCE)
Coalesce(row, col) == IF col \in DOMAIN row.vals THEN row.vals[col] ELSE 0

\* new_value without the difference added
adjusted_value_kept(old_value, difference) == old_value

\* line 362: new_value = (old_value + difference).quantize(precision)
adjusted_value(old_value, difference) == old_value + difference

\* the loop of lines 176-475 over the fetched rows (WHERE rc.fic_mis_date =
\* fic_mis_date ORDER BY rc.id), from row k of the table on. The fetched row
\* is the tuple of the SELECT list: five leading values, the bucket values
\* (or the one dummy_bucket when there is no bucket column), the sum and the
\* target balance, the last two in thousandths.
RECURSIVE AlignFrom(_, _, _, _, _, _)
AlignFrom(table, k, fic_mis_date, bucket_cols, balances, res) ==
    IF k > Len(table.rows) THEN [table |-> table, result |-> res]
    ELSE IF table.rows[k].fic_mis_date # fic_mis_date
    THEN AlignFrom(table, k + 1, fic_mis_date, bucket_cols, balances, res)
    ELSE
    LET rc == table.rows[k]
        pb == {b \in balances : /\ b.fic_mis_date = rc.fic_mis_date
                                /\ b.v_prod_code = rc.v_prod_code
                                /\ b.v_ccy_code = rc.v_ccy_code}
        selected == IF bucket_cols = <<>> THEN <<0>>
                    ELSE [i \in 1..Len(bucket_cols) |-> Coalesce(rc, bucket_cols[i])]
        current_bucket_sum == IF bucket_cols = <<>> THEN 0 ELSE SumSeq(selected)
        row == <<rc.id, rc.v_prod_code, rc.v_ccy_code, "", rc.process_name>>
               \o selected
               \o <<NotNull(current_bucket_sum * 10),
                    IF pb = {} THEN Null ELSE NotNull((CHOOSE b \in pb : TRUE).n_balance)>>
        bucket_values == [i \in 1..Len(bucket_cols) |-> row[5 + i]]
        fetched_target == row[5 + Len(bucket_cols) + 2]
        manual_sum == SumSeq(bucket_values)
        counted == [res EXCEPT !.processed = @ + 1]
    IN IF fetched_target = Null
       THEN AlignFrom(table, k + 1, fic_mis_date, bucket_cols, balances,
                      [counted EXCEPT !.missing_rows =
                          Append(@, [id |-> rc.id, current_sum |-> manual_sum])])
       ELSE
       LET target_balance == quantize(fetched_target[1])
           difference == target_balance - manual_sum
       IN IF difference = 0
          THEN AlignFrom(table, k + 1, fic_mis_date, bucket_cols, balances,
                         [counted EXCEPT !.within_tolerance = @ + 1])
          ELSE IF bucket_values = <<>>
          THEN AlignFrom(table, k + 1, fic_mis_date, bucket_cols, balances,
                         [counted EXCEPT !.error_rows = Append(@, [id |-> rc.id])])
          ELSE
          LET best_bucket_idx == best_bucket(difference, bucket_values)
              target_col == bucket_cols[best_bucket_idx]
              old_value == bucket_values[best_bucket_idx]
              new_value == adjusted_value(old_value, difference)
              updated == [table EXCEPT !.rows =
                            [n \in 1..Len(table.rows) |->
                               IF table.rows[n].id = rc.id
                               THEN [table.rows[n] EXCEPT !.vals =
                                       [c \in DOMAIN @ \cup {target_col} |->
                                          IF c = target_col THEN new_value ELSE @[c]]]
                               ELSE table.rows[n]]]
              final_sum == SumSeq([i \in 1..Len(bucket_cols) |->
                                     Coalesce(updated.rows[k], bucket_cols[i])])
          IN AlignFrom(updated, k + 1, fic_mis_date, bucket_cols, balances,
                       IF final_sum = target_balance
                       THEN [counted EXCEPT !.adjusted_rows =
                               Append(@, [id |-> rc.id, old_sum |-> manual_sum,
                                          new_sum |-> final_sum, target |-> target_balance,
                                          adjusted_column |-> target_col,
                                          old_value |-> old_value, new_value |-> new_value,
                                          difference_applied |-> difference])]
                       ELSE [counted EXCEPT !.error_rows = Append(@, [id |-> rc.id])])

\* align_buckets_to_balance(fic_mis_date) on Report_Contractual_<date>, whose
\* bucket columns have the ordinal order dynamic
align_buckets_to_balance(d, fic_mis_date, dynamic) ==
    LET table == d.report[fic_mis_date]
        found == _bucket_columns(dynamic)
        bucket_cols == SelectSeq(found, LAMBDA col : col # cashflow_by_bucket_id)
    IN IF ~table.exists
       THEN [db |-> d, result |-> [NoResult EXCEPT !.error = "Table not found"]]
       ELSE IF found = <<>>
       THEN [db |-> d, result |-> [NoResult EXCEPT !.error = "No bucket columns found"]]
       ELSE LET aligned == AlignFrom(table, 1, fic_mis_date, bucket_cols, d.product_balance, NoResult)
            IN [db |-> [d EXCEPT !.report[fic_mis_date] = aligned.table],
                result |-> aligned.result]

\* Pipeline._execute_step around a step function that raised: another
\* attempt from the start of the step, or Failed after the last one
StepRaised(j, restart) ==
    IF IsLastAttempt(j.attempt, DefaultRetryCount)
    THEN [j EXCEPT !.pc = "failed"]
    ELSE [j EXCEPT !.pc = restart, !.attempt = @ + 1]

StepDone(j, next) == [j EXCEPT !.pc = next, !.attempt = 0]

\* step 8, calculate_time_buckets_and_spread(fic_mis_date)
SpreadStep(date) ==
    /\ job[date].pc = "spread"
    /\ LET res == calculate_time_buckets_and_spread(db, date)
       IN /\ db' = res.db
          /\ job' = [job EXCEPT ![date] = IF res.ok THEN StepDone(@, "aggregate")
                                          ELSE StepRaised(@, "spread")]
    /\ UNCHANGED <<runnerVars, retry, pipe>>

\* step 9, aggregate_by_prod_code(fic_mis_date), up to the end of its transaction
AggregateStep(date) ==
    /\ job[date].pc = "aggregate"
    /\ LET res == AggregateRows(db, date)
       IN /\ db' = res.db
          /\ job' = [job EXCEPT ![date].pc = IF res.synced THEN "sync" ELSE "create"]
    /\ UNCHANGED <<runnerVars, retry, pipe>>

\* step 9, line 121: sync_bucket_columns(verbose=True)
SyncStep(date) ==
    /\ job[date].pc = "sync"
    /\ db' = sync_bucket_columns(db)
    /\ job' = [job EXCEPT ![date] = StepDone(@, "create")]
    /\ UNCHANGED <<runnerVars, retry, pipe>>

\* step 10, create_report_contractual_table(fic_mis_date)
CreateStep(date) ==
    /\ job[date].pc = "create"
    /\ db' = create_report_contractual_table(db, date)
    /\ job' = [job EXCEPT ![date] = StepDone(@, "load")]
    /\ UNCHANGED <<runnerVars, retry, pipe>>

\* step 11, report_contractual_load: bucket_meta is read before the transaction
ReadBucketMeta(date) ==
    /\ job[date].pc = "load"
    /\ \E bucket_meta \in BucketMetas(db) :
          job' = [job EXCEPT ![date].pc = "write", ![date].meta = bucket_meta]
    /\ UNCHANGED <<runnerVars, retry, pipe, db>>

\* step 11, report_contractual_load: the transaction
LoadStep(date) ==
    /\ job[date].pc = "write"
    /\ LET res == report_contractual_load(db, date, job[date].meta)
       IN /\ db' = res.db
          /\ job' = [job EXCEPT ![date] = IF res.ok THEN StepDone([@ EXCEPT !.meta = <<>>], "align")
                                          ELSE StepRaised([@ EXCEPT !.meta = <<>>], "load")]
    /\ UNCHANGED <<runnerVars, retry, pipe>>

\* step 12, align_buckets_to_balance(fic_mis_date): it returns its result
\* and never raises
AlignStep(date) ==
    /\ job[date].pc = "align"
    /\ \E dynamic \in ColumnOrders(db.report[date].cols) :
          LET res == align_buckets_to_balance(db, date, dynamic)
          IN /\ db' = res.db
             /\ job' = [job EXCEPT ![date] = StepDone([@ EXCEPT !.result = res.result], "done")]
    /\ UNCHANGED <<runnerVars, retry, pipe>>

NextData ==
    \/ \E date \in SnapshotDates : SpreadStep(date)
    \/ \E date \in SnapshotDates : AggregateStep(date)
    \/ \E date \in SnapshotDates : SyncStep(date)
    \/ \E date \in SnapshotDates : CreateStep(date)
    \/ \E date \in SnapshotDates : ReadBucketMeta(date)
    \/ \E date \in SnapshotDates : LoadStep(date)
    \/ \E date \in SnapshotDates : AlignStep(date)

SpecData == InitData /\ [][NextData]_vars

----------------------------------------------------------------------------
(* Steps 8 to 12 for one snapshot date: bucket definitions, cash-flow     *)
(* events and target balances are drawn, then the steps run in order.     *)

AnchorDates == {<<2025, 4, 30>>, <<2024, 1, 31>>}

\* the bucket definitions a TimeBuckets row can hold; time_bucket_manage
\* stores frequency and multiplier as they are posted
DefinitionChoices ==
    { [frequency |-> 7, multiplier |-> "Days"],
      [frequency |-> 1, multiplier |-> "Months"],
      [frequency |-> 5, multiplier |-> "Years"],
      [frequency |-> 2, multiplier |-> "Weeks"],
      [frequency |-> -10, multiplier |-> "Days"] }

\* lists of distinct definitions, at most MaxDefs long
DefinitionLists ==
    {s \in SeqsUpTo(DefinitionChoices, MaxDefs) :
        \A i, j \in 1..Len(s) : i # j => s[i] # s[j]}

\* the k-th candidate Arranged_cashflows row of a snapshot date: one account
\* each, amounts in hundredths
EventRow(date, k) ==
    LET total == IF k = 1 THEN 100000 ELSE IF k % 2 = 0 THEN -30000 ELSE 5000
        interest == total \div 5
    IN [fic_mis_date |-> date, v_account_number |-> k,
        v_prod_code |-> IF k % 3 = 0 THEN "P2" ELSE "P1",
        v_ccy_code |-> "USD",
        d_cashflow_date |-> AddDays(date, 9 * k - 8),
        n_total_cash_flow_amount |-> total,
        n_total_principal_payment |-> total - interest,
        n_total_interest_payment |-> interest,
        record_count |-> 0]

\* the k-th candidate product_balance row of a snapshot date, n_balance in
\* thousandths
BalanceRow(date, k) ==
    [fic_mis_date |-> date,
     v_prod_code |-> IF k = 3 THEN "P2" ELSE "P1",
     v_ccy_code |-> IF k <= 3 THEN "USD" ELSE "EUR",
     n_balance |-> IF k = 1 THEN 1200000 ELSE IF k = 2 THEN 1000004
                   ELSE IF k = 3 THEN -12345 ELSE 7000 * k]

\* unique_together = ("fic_mis_date", "v_prod_code")
BalanceInputs(date) ==
    {{BalanceRow(date, k) : k \in pick} : pick \in
        {p \in SUBSET (1..MaxBalances) :
            \A i, j \in p : i # j =>
               BalanceRow(date, i).v_prod_code # BalanceRow(date, j).v_prod_code}}

InitSnapshot ==
    /\ history = {}
    /\ runner = [r \in Runners |-> IdleRunner]
    /\ served = [execute |-> 0, continue |-> 0, stop |-> 0]
    /\ limits = IdleLimits
    /\ stopped = {}
    /\ retry = RetryIdle
    /\ pipe = PipeIdle
    /\ \E anchor \in AnchorDates :
       /\ \E name \in {"contractual", "forecast"} :
          \E defs \in DefinitionLists :
          \E events \in SUBSET (1..MaxEvents) :
          \E balances \in BalanceInputs(anchor) :
             db = [DbIdle EXCEPT
                     !.process = name,
                     !.time_buckets = [k \in 1..Len(defs) |->
                                         [serial_number |-> k,
                                          frequency |-> defs[k].frequency,
                                          multiplier |-> defs[k].multiplier]],
                     !.arranged = {EventRow(anchor, k) : k \in events},
                     !.product_balance = balances,
                     !.report = [date \in AnchorDates |-> NoTable]]
       /\ job = [date \in AnchorDates |->
                   IF date = anchor THEN NewJob ELSE [NewJob EXCEPT !.pc = "done"]]

NextSnapshot ==
    \/ \E date \in AnchorDates : SpreadStep(date)
    \/ \E date \in AnchorDates : AggregateStep(date)
    \/ \E date \in AnchorDates : SyncStep(date)
    \/ \E date \in AnchorDates : CreateStep(date)
    \/ \E date \in AnchorDates : ReadBucketMeta(date)
    \/ \E date \in AnchorDates : LoadStep(date)
    \/ \E date \in AnchorDates : AlignStep(date)

SpecSnapshot == InitSnapshot /\ [][NextSnapshot]_vars

\* step 9, aggregate_by_prod_code(fic_mis_date) when a statement of its
\* transaction raises (a database error): the transaction is rolled back,
\* the except clause of lines 116-118 prints the error and returns, without
\* sync_bucket_columns; Pipeline._execute_step sees the call return and the
\* run goes on to the next step
AggregateRaises(date) ==
    /\ job[date].pc = "aggregate"
    /\ db' = transaction_atomic(db, [ok |-> FALSE, db |-> AggregateRows(db, date).db]).db
    /\ job' = [job EXCEPT ![date] = StepDone(@, "create")]
    /\ UNCHANGED <<runnerVars, retry, pipe>>

NextFaulty ==
    \/ NextSnapshot
    \/ \E date \in AnchorDates : AggregateRaises(date)

\* the steps 8-12 of one snapshot date with database errors in step 9
SpecFaulty == InitSnapshot /\ [][NextFaulty]_vars

----------------------------------------------------------------------------
(* sync_bucket_columns(table_name, rebuild) on the relations it can be     *)
(* given, between refreshes of the TimeBucketMaster and stores of values.  *)
(* A relation has columns (named like the bucket columns, as tuples), the  *)
(* attribute number of each, and rows with the values of their non-NULL    *)
(* bucket columns.                                                         *)

\* the tails of the table names drawn that are eight digits
EightDigits == {"20240131"}

\* the relations: Report_Contractual_Base, a per-snapshot copy, another one
TableNames ==
    { [stem |-> "Report_Contractual", tail |-> "Base"],
      [stem |-> "Report_Contractual", tail |-> "20240131"],
      [stem |-> "Report_Behavioural", tail |-> "Base"] }

\* the calls: every relation with the default rebuild=False, the last one
\* also with rebuild=True
SyncCalls ==
    {[table_name |-> n, rebuild |-> FALSE] : n \in TableNames}
    \cup {[table_name |-> [stem |-> "Report_Behavioural", tail |-> "Base"], rebuild |-> TRUE]}

\* the static columns of a report relation that matter here
StaticColumns == {<<"id">>, <<"v_prod_code">>, cashflow_by_bucket_id}

\* the bucket definitions of the refreshes
SyncDefinitions ==
    { << [frequency |-> 7, multiplier |-> "Days"] >>,
      << [frequency |-> 1, multiplier |-> "Months"] >>,
      << [frequency |-> 7, multiplier |-> "Days"], [frequency |-> 1, multiplier |-> "Months"] >> }

\* a relation as created: its static columns, one row
NewRelation ==
    [exists |-> TRUE,
     cols |-> StaticColumns,
     rows |-> << [id |-> 1, vals |-> <<>>] >>]

\* no DDL statement issued yet
NoDDL == [op |-> "none", dropped |-> {}, added |-> {}]

\* one behaviour follows the calls of one kind on one relation
InitSync ==
    /\ history = {}
    /\ runner = [r \in Runners |-> IdleRunner]
    /\ served = [execute |-> 0, continue |-> 0, stop |-> 0]
    /\ limits = IdleLimits
    /\ stopped = {}
    /\ retry = RetryIdle
    /\ pipe = PipeIdle
    /\ \E name \in {"contractual", "forecast"} :
          db = [DbIdle EXCEPT !.process = name,
                              !.report = [n \in TableNames |-> NewRelation]]
    /\ \E call \in SyncCalls :
          job = [call |-> call, changes |-> 0, runs |-> 0, last |-> NoDDL]

\* attname LIKE 'bucket_%': bucket, one more character, anything
BucketLike(column) == column[1] = "bucket" /\ Len(column) > 1

\* _get_bucket_cols_pg(table_name)
_get_bucket_cols_pg(table) == {c \in table.cols : BucketLike(c)}

\* lines 66-68: always_rebuild, is_snapshot, must_rebuild
must_rebuild(table_name, rebuild) ==
    LET always_rebuild == {[stem |-> "Report_Contractual", tail |-> "Base"]}
        is_snapshot == table_name.stem = "Report_Contractual" /\ table_name.tail \in EightDigits
    IN rebuild \/ is_snapshot \/ table_name \in always_rebuild

\* ALTER TABLE DROP COLUMN IF EXISTS for each of columns
_drop_columns(table, columns) ==
    [table EXCEPT
       !.cols = @ \ columns,
       !.rows = [k \in 1..Len(table.rows) |->
                   [table.rows[k] EXCEPT !.vals = [c \in DOMAIN @ \ columns |-> @[c]]]]]

\* the column names of the TimeBucketMaster rows of the default process
RequiredColumns(d) ==
    {bucket_column_name(bucket) : bucket \in {t \in d.tbm : t.process_name = d.process}}

\* a loop over names that stops after the first column it adds
AddFirstColumn(table, names) ==
    IF names \subseteq table.cols THEN table
    ELSE [table EXCEPT !.cols = @ \cup {CHOOSE c \in names : c \notin table.cols}]

\* lines 79-96: ALTER TABLE ADD COLUMN IF NOT EXISTS for each of names
AddColumns(table, names) == [table EXCEPT !.cols = @ \cup names]

\* sync_bucket_columns(table_name, rebuild)
sync_bucket_columns_on(d, table_name, rebuild) ==
    LET table == d.report[table_name]
        dropped == IF must_rebuild(table_name, rebuild)
                   THEN _drop_columns(table, _get_bucket_cols_pg(table))
                   ELSE table
    IN [d EXCEPT !.report[table_name] = AddColumns(dropped, RequiredColumns(d))]

\* a call of sync_bucket_columns; the statements it issues are noted
SyncTable ==
    LET table_name == job.call.table_name
        table == db.report[table_name]
        dropped == IF must_rebuild(table_name, job.call.rebuild)
                   THEN _get_bucket_cols_pg(table) ELSE {}
    IN /\ job.runs < MaxSyncs
       /\ db' = sync_bucket_columns_on(db, table_name, job.call.rebuild)
       /\ job' = [job EXCEPT !.runs = @ + 1,
                             !.last = [op |-> "sync", dropped |-> dropped,
                                       added |-> db'.report[table_name].cols
                                                   \ (table.cols \ dropped)]]
       /\ UNCHANGED <<runnerVars, retry, pipe>>

\* step 8 of a run for a snapshot date: _refresh_timebucket_master
RefreshMaster(date, defs) ==
    /\ job.changes < MaxMasterChanges
    /\ db' = _refresh_timebucket_master(db, "contractual",
                                        _build_bucket_ranges(date, defs).ranges, date)
    /\ job' = [job EXCEPT !.changes = @ + 1, !.runs = 0, !.last = NoDDL]
    /\ UNCHANGED <<runnerVars, retry, pipe>>

\* a loader stores an amount in a bucket column of the row of the relation
StoreValue ==
    LET table_name == job.call.table_name
    IN /\ \E c \in db.report[table_name].cols :
             /\ BucketLike(c)
             /\ c \notin DOMAIN db.report[table_name].rows[1].vals
             /\ db' = [db EXCEPT !.report[table_name].rows[1].vals =
                          [x \in DOMAIN @ \cup {c} |-> IF x = c THEN 100 ELSE @[x]]]
       /\ job' = [job EXCEPT !.last = [NoDDL EXCEPT !.op = "store"]]
       /\ UNCHANGED <<runnerVars, retry, pipe>>

NextSync ==
    \/ SyncTable
    \/ \E date \in SnapshotDates, defs \in SyncDefinitions : RefreshMaster(date, defs)
    \/ StoreValue

SpecSync == InitSync /\ [][NextSync]_vars

----------------------------------------------------------------------------
(* load_report_behavioural(fic_mis_date): Report_Contractual_<date> with   *)
(* one row, the behavioural patterns, and Report_behavioural_<date>.       *)
(* Amounts are hundredths, percentages thousandths of a percent.           *)

\* the snapshot date of the respread
RespreadDate == <<2024, 1, 31>>

SrcTable == [stem |-> "Report_Contractual", tail |-> "20240131"]
DstTable == [stem |-> "Report_behavioural", tail |-> "20240131"]

\* 100 percent, in thousandths of a percent (percentage / Decimal("100"))
HundredPercent == 100000

\* the column of the weekly bucket n from a snapshot date on
WeeklyColumn(date, n) ==
    bucket_column_name([bucket_number |-> n,
                        start_date |-> AddDays(date, 7 * (n - 1)),
                        end_date |-> AddDays(date, 7 * n - 1)])

\* the bucket column sets of the source relation: the buckets 1..n of the
\* snapshot date, and bucket 1 of this date next to bucket 1 of another
SourceColumnSets ==
    {{WeeklyColumn(RespreadDate, n) : n \in 1..w} : w \in 1..MaxWidth}
    \cup {{WeeklyColumn(RespreadDate, 1), WeeklyColumn(<<2024, 2, 29>>, 1)}}

\* the bucket amounts of the source row: NULL (absent) or an amount
SourceAmounts == {1001, -335}

SourceVals(cols) == UNION {[S -> SourceAmounts] : S \in SUBSET cols}

\* the Behavioral_Pattern rows with their splits {bucket_number: percentage}
PatternChoices ==
    { [v_prod_type |-> "LOANS", splits |-> (1 :> 100000)],
      [v_prod_type |-> "LOANS", splits |-> (1 :> 50000 @@ 2 :> 50000)],
      [v_prod_type |-> "LOANS", splits |-> (1 :> 33333 @@ 2 :> 33333 @@ 3 :> 33334)],
      [v_prod_type |-> "LOANS", splits |-> (1 :> 60000 @@ (MaxWidth + 1) :> 40000)],
      [v_prod_type |-> "LOANS", splits |-> (1 :> 50000)],
      [v_prod_type |-> "LOANS", splits |-> <<>>],
      [v_prod_type |-> "DEPOSITS", splits |-> (1 :> 100000)] }

InitRespread ==
    /\ history = {}
    /\ runner = [r \in Runners |-> IdleRunner]
    /\ served = [execute |-> 0, continue |-> 0, stop |-> 0]
    /\ limits = IdleLimits
    /\ stopped = {}
    /\ retry = RetryIdle
    /\ pipe = PipeIdle
    /\ \E cols \in SourceColumnSets, pat \in PatternChoices, current \in BOOLEAN :
       \E vals \in SourceVals(cols) :
          db = [patterns |-> {pat}] @@
               [DbIdle EXCEPT
                  !.base = IF current THEN cols ELSE {WeeklyColumn(RespreadDate, 1)},
                  !.report = (SrcTable :> [exists |-> TRUE, cols |-> cols,
                                           rows |-> << [id |-> 1, v_prod_type |-> "LOANS",
                                                        vals |-> vals] >>]
                              @@ DstTable :> NoTable)]
    /\ job = [pc |-> "respread", rows_inserted |-> 0, error |-> ""]

\* Decimal.quantize(Decimal("0.01"), ROUND_HALF_UP) of numerator/denominator
\* hundredths: to the nearest hundredth, halves away from zero
quantize_half_up(numerator, denominator) ==
    IF numerator >= 0 THEN (2 * numerator + denominator) \div (2 * denominator)
    ELSE -((2 * (-numerator) + denominator) \div (2 * denominator))

\* lines 55-61: {v_prod_type: splits} of the patterns that have splits
LoadPatterns(d) ==
    {pat \in d.patterns : DOMAIN pat.splits # {}}

\* lines 84-91: bucket_map, the columns coming in the order bucket_cols; of
\* two columns with the same bucket number the later one stays
bucket_map(bucket_cols) ==
    [bucket_no \in {bucket_cols[i][2] : i \in DOMAIN bucket_cols} |->
        LET last == CHOOSE i \in DOMAIN bucket_cols :
                       /\ bucket_cols[i][2] = bucket_no
                       /\ \A j \in DOMAIN bucket_cols :
                             bucket_cols[j][2] = bucket_no => j <= i
        IN bucket_cols[last]]

RECURSIVE SumOfSet(_, _)
SumOfSet(S, f) ==
    IF S = {} THEN 0
    ELSE LET x == CHOOSE y \in S : TRUE
         IN f[x] + SumOfSet(S \ {x}, f)

\* lines 139-142: the destination bucket numbers of the pattern that map to
\* the column dst_col
spread_targets(map, splits, dst_col) ==
    {dst_bucket_no \in DOMAIN splits :
        dst_bucket_no \in DOMAIN map /\ map[dst_bucket_no] = dst_col}

\* lines 134-146: new_bucket_vals of a source row
new_bucket_vals(row, bucket_cols, splits) ==
    LET map == bucket_map(bucket_cols)
        cols == {bucket_cols[i] : i \in DOMAIN bucket_cols}
        amt == [src_bucket_no \in DOMAIN map |-> Coalesce(row, map[src_bucket_no])]
        total == SumOfSet(DOMAIN map, amt)
    IN [dst_col \in cols |->
          LET targets == spread_targets(map, splits, dst_col)
              pct == SumOfSet(targets, splits)
          IN quantize_half_up(total * pct, HundredPercent)]

\* load_report_behavioural(fic_mis_date), the columns of the source relation
\* listed in the order bucket_cols
load_report_behavioural(d, bucket_cols) ==
    LET created == [d EXCEPT !.report[DstTable] =
                       [exists |-> TRUE, cols |-> d.base, rows |-> <<>>]]
        patterns == LoadPatterns(d)
        src == d.report[SrcTable]
        selected == {k \in DOMAIN src.rows :
                        \E pat \in patterns : pat.v_prod_type = src.rows[k].v_prod_type}
    IN IF patterns = {} THEN [db |-> created, rows_inserted |-> 0, error |-> ""]
       ELSE IF selected # {} /\ ~(src.cols \subseteq d.base)
       THEN [db |-> created, rows_inserted |-> 0, error |-> "UndefinedColumn"]
       ELSE LET spread(k) ==
                    LET row == src.rows[k]
                        pat == CHOOSE p \in patterns : p.v_prod_type = row.v_prod_type
                    IN [id |-> k, v_prod_type |-> row.v_prod_type,
                        vals |-> new_bucket_vals(row, bucket_cols, pat.splits)]
                rows == [k \in 1..Cardinality(selected) |->
                            spread(CHOOSE s \in selected :
                                      Cardinality({o \in selected : o < s}) = k - 1)]
            IN [db |-> [created EXCEPT !.report[DstTable].rows = rows],
                rows_inserted |-> Cardinality(selected), error |-> ""]

\* the orders the query of lines 72-81 (no ORDER BY) can list columns in
AnyOrders(cols) ==
    {s \in [1..Cardinality(cols) -> cols] :
        \A i, j \in 1..Cardinality(cols) : i # j => s[i] # s[j]}

RespreadStep ==
    /\ job.pc = "respread"
    /\ \E bucket_cols \in AnyOrders(db.report[SrcTable].cols) :
          LET res == load_report_behavioural(db, bucket_cols)
          IN /\ db' = res.db
             /\ job' = [pc |-> "done", rows_inserted |-> res.rows_inserted,
                        error |-> res.error]
    /\ UNCHANGED <<runnerVars, retry, pipe>>

NextRespread == RespreadStep

SpecRespread == InitRespread /\ [][NextRespread]_vars

----------------------------------------------------------------------------
(* report_contractual_load(fic_mis_date) on the relation of a snapshot     *)
(* date as steps 8-10 of a run leave it: the TimeBucketMaster of the run   *)
(* (and, in some behaviours, of an earlier run for another date), the      *)
(* Aggregated_Prod_Cashflow_Base rows of the date, one per (product,       *)
(* currency, loan type, party type), and the empty per-snapshot relation.  *)

\* the snapshot date that is loaded, and the date of an earlier run
LoadDate == <<2024, 1, 31>>
EarlierDate == <<2024, 2, 29>>

\* the k-th candidate Aggregated_Prod_Cashflow_Base row (lines 95-108 of
\* aggregate_by_prod_code), n_total_cash_flow_amount only
ProdRow(k) ==
    [k |-> k,
     fic_mis_date |-> LoadDate, process_name |-> "contractual",
     v_prod_code |-> IF k = 3 THEN "P2" ELSE "P1",
     v_ccy_code |-> IF k >= 4 THEN "EUR" ELSE "USD",
     v_loan_type |-> IF k % 2 = 0 THEN "OD" ELSE "TERM",
     v_party_type_code |-> "CORP",
     financial_element |-> "n_total_cash_flow_amount",
     buckets |-> IF k = 1 THEN <<10000, 0>>
                 ELSE IF k = 2 THEN <<0, 25000>>
                 ELSE <<7000 * k, 3000>>]

\* the rows of a set of candidates, with the ids bulk_create gives them
ProdRows(S) ==
    {[id |-> RankIn(k, S), fic_mis_date |-> ProdRow(k).fic_mis_date,
      process_name |-> ProdRow(k).process_name, v_prod_code |-> ProdRow(k).v_prod_code,
      v_ccy_code |-> ProdRow(k).v_ccy_code, v_loan_type |-> ProdRow(k).v_loan_type,
      v_party_type_code |-> ProdRow(k).v_party_type_code,
      financial_element |-> ProdRow(k).financial_element,
      cashflow_by_bucket |-> RankIn(k, S), time_bucket_master |-> 1,
      buckets |-> ProdRow(k).buckets] : k \in S}

\* the bucket definitions of the runs: a week, then a month
LoadDefinitions == << [frequency |-> 7, multiplier |-> "Days"],
                      [frequency |-> 1, multiplier |-> "Months"] >>

\* the TimeBucketMaster after the run for the dates given, one after another
RECURSIVE MasterAfter(_, _)
MasterAfter(d, dates) ==
    IF dates = <<>> THEN d
    ELSE MasterAfter(_refresh_timebucket_master(
                         d, "contractual",
                         _build_bucket_ranges(Head(dates), LoadDefinitions).ranges,
                         Head(dates)),
                     Tail(dates))

InitLoad ==
    /\ history = {}
    /\ runner = [r \in Runners |-> IdleRunner]
    /\ served = [execute |-> 0, continue |-> 0, stop |-> 0]
    /\ limits = IdleLimits
    /\ stopped = {}
    /\ retry = RetryIdle
    /\ pipe = PipeIdle
    /\ \E dates \in {<<LoadDate>>, <<EarlierDate, LoadDate>>} :
       \E S \in SUBSET (1..MaxProdRows) :
          LET empty == [DbIdle EXCEPT !.process = "contractual",
                                      !.report = [date \in SnapshotDates |-> NoTable]]
              master == MasterAfter(empty, dates)
              rows == ProdRows(S)
              aggregated == [master EXCEPT !.prod = rows,
                                           !.next_id.prod = Cardinality(rows) + 1]
          IN db = create_report_contractual_table(sync_bucket_columns(aggregated), LoadDate)
    /\ job = [loads |-> 0, ok |-> TRUE]

\* report_contractual_load(LoadDate), once more
LoadTable ==
    /\ job.loads < MaxLoads
    /\ job.ok
    /\ \E bucket_meta \in BucketMetas(db) :
          LET res == report_contractual_load(db, LoadDate, bucket_meta)
          IN /\ db' = res.db
             /\ job' = [loads |-> job.loads + 1, ok |-> res.ok]
    /\ UNCHANGED <<runnerVars, retry, pipe>>

NextLoad == LoadTable

SpecLoad == InitLoad /\ [][NextLoad]_vars

----------------------------------------------------------------------------
(* Properties of the pipeline runner *)

RunComplete(h, run) ==
    \A k \in 1..NumSteps : StatusOf(h, run, TOTAL_PIPELINE_STEPS[k]) = "Success"

LatestRequest(r) == \A q \in Runners : q > r => runner[q].pc = "idle"

\* C1: a resume of a run whose history is Success.., Failed, Pending-or-absent..
\* re-executes the failed step and every later step, so when every step
\* function it invokes succeeds, all 15 steps of the run are Success once the
\* resume has returned.
C1_ResumeCompletesRun ==
    \A r \in Runners :
        ( /\ runner[r].pc = "done"
          /\ LatestRequest(r)
          /\ runner[r].shape
          /\ runner[r].response = "ok"
          /\ runner[r].failed = "" )
        => RunComplete(history, runner[r].run)

\* C2: a resume never invokes the function of a step whose history row is
\* Success, works on the run number it was asked to resume, and leaves one row
\* per (run number, step name).
C2_ResumeSkipsSuccess ==
    [][ /\ \A r \in Runners :
             ( /\ runner[r].cont # ""
               /\ runner[r].pc = "mark"
               /\ runner'[r].pc = "exec" )
             => /\ StatusOf(history, runner[r].run, runner[r].steps[runner[r].i]) # "Success"
                /\ runner'[r].hist.run = runner[r].run
        /\ \A x, y \in history' : (x.run = y.run /\ x.name = y.name) => x = y
      ]_vars

\* C3: once stop_execution has marked the Running step of a run Stopped, no
\* later step of that run is started (becomes Running, Success or Failed)
\* until a continue_execution request for the run.
C3_StoppedRunDoesNotAdvance ==
    [][ \A p \in stopped \cap stopped' :
          \A k \in (StepIndex(p[2]) + 1)..NumSteps :
             LET before == StatusOf(history, p[1], TOTAL_PIPELINE_STEPS[k])
                 after == StatusOf(history', p[1], TOTAL_PIPELINE_STEPS[k])
             IN after \in {"Running", "Success", "Failed"} => after = before
      ]_vars

AllowedChange ==
    { <<"Pending", "Running">>, <<"Running", "Success">>,
      <<"Running", "Failed">>, <<"Running", "Stopped">>,
      <<"Failed", "Pending">>, <<"Stopped", "Pending">> }

\* C4: the status of a history row changes only along Pending->Running,
\* Running->Success, Running->Failed, Running->Stopped, and the reset of
\* Failed or Stopped to Pending by a resume; a row set to Stopped is not
\* overwritten with Success or Failed when its step function returns.
C4_StatusTransitions ==
    [][ \A x \in history : \A y \in history' :
          (x.run = y.run /\ x.name = y.name /\ x.status # y.status)
          => <<x.status, y.status>> \in AllowedChange
      ]_vars

\* C5: when an execution records a step Failed it ends there, and every later
\* step of the pipeline, none of which was executed, has a history row with
\* status Pending for the run.
C5_FailureLeavesPending ==
    [][ \A r \in Runners :
          ( /\ runner[r].pc = "exec"
            /\ runner'[r].failed # "" )
          => /\ runner'[r].pc = "done"
             /\ \A k \in (StepIndex(runner'[r].failed) + 1)..NumSteps :
                   StatusOf(history', runner[r].run, TOTAL_PIPELINE_STEPS[k]) = "Pending"
      ]_vars

\* C6: a step function is invoked only when every step of its depends_on
\* list has status Success for the run.
C6_DependenciesSucceeded ==
    [][ \A r \in Runners :
          ( /\ runner[r].pc = "mark"
            /\ runner'[r].pc = "exec" )
          => \A dep \in DependsOn(runner[r].steps[runner[r].i]) :
                StatusOf(history', runner[r].run, dep) = "Success"
      ]_vars

\* C9: at no moment are two step functions of the same run executing.
C9_OneStepAtATime ==
    \A r, q \in Runners :
        ( /\ r # q
          /\ runner[r].pc = "exec"
          /\ runner[q].pc = "exec" )
        => runner[r].run # runner[q].run

----------------------------------------------------------------------------
(* Properties of Pipeline._execute_step *)

AllRaise(n) == \A k \in 1..n : retry.raises[k]

\* C7: _execute_step calls the step function at most retry_count times,
\* returns Success at the first call that raises nothing, returns Failed
\* only after retry_count calls in a row have raised, and sleeps 2^k seconds
\* after the k-th failed call (k = 0, 1, ...), with no sleep after the last.
C7_RetryBackoff ==
    /\ retry.calls <= retry.retry_count
    /\ retry.status = "Success" =>
          /\ ~retry.raises[retry.calls]
          /\ AllRaise(retry.calls - 1)
    /\ retry.status = "Failed" =>
          /\ retry.calls = retry.retry_count
          /\ AllRaise(retry.retry_count)
    /\ retry.pc \in {"loop", "sleep"} => AllRaise(retry.calls)
    /\ (retry.pc = "done" /\ retry.retry_count > 0) => retry.status \in {"Success", "Failed"}
    /\ \A k \in 1..Len(retry.sleeps) : retry.sleeps[k] = 2 ^ (k - 1)
    /\ retry.pc = "loop" => Len(retry.sleeps) = retry.calls
    /\ retry.pc = "sleep" => Len(retry.sleeps) = retry.calls - 1
    /\ (retry.pc = "done" /\ retry.calls > 0) => Len(retry.sleeps) = retry.calls - 1

\* three calls raise and the step is Failed after sleeps of 1 and 2 seconds
C7_Witness ==
    /\ retry.pc = "done"
    /\ retry.retry_count = 3
    /\ retry.status = "Failed"
    /\ retry.calls = 3
    /\ retry.sleeps = <<1, 2>>

----------------------------------------------------------------------------
(* Properties of Pipeline.validate_dependencies *)

DependencyEdges(steps) ==
    UNION { {<<steps[k].name, dep>> : dep \in steps[k].depends_on}
            : k \in 1..Len(steps) }

\* pairs joined by a path of at most n dependency edges
RECURSIVE PathsUpTo(_, _)
PathsUpTo(E, n) ==
    IF n <= 1 THEN E
    ELSE LET R == PathsUpTo(E, n - 1)
         IN R \cup {<<p[1][1], p[2][2]>> : p \in {q \in R \X E : q[1][2] = q[2][1]}}

HasDependencyCycle(steps) ==
    \E e \in PathsUpTo(DependencyEdges(steps), Len(steps) + 1) : e[1] = e[2]

----------------------------------------------------------------------------
(* Properties of runs of different snapshot dates *)

\* the database before any run: the configuration and the cash flows only
DbFresh(d) ==
    [d EXCEPT !.arranged = {[r EXCEPT !.record_count = 0] : r \in @},
              !.tbm = {}, !.acc = {}, !.prod = {}, !.base = {},
              !.report = [date \in SnapshotDates |-> NoTable],
              !.next_id = DbIdle.next_id]

\* steps 8..11 of the run of one date, with no other run
RunAlone(d, date) ==
    LET s8 == calculate_time_buckets_and_spread(DbFresh(d), date)
    IN IF ~s8.ok THEN [pc |-> "failed", db |-> s8.db]
       ELSE LET s9 == AggregateRows(s8.db, date)
                synced == IF s9.synced THEN sync_bucket_columns(s9.db) ELSE s9.db
                s10 == create_report_contractual_table(synced, date)
                s11 == report_contractual_load(s10, date, CHOOSE m \in BucketMetas(s10) : TRUE)
            IN [pc |-> IF s11.ok THEN "done" ELSE "failed", db |-> s11.db]

\* the relations of one snapshot date, without the generated ids
RelationsOf(d, date) ==
    [tbm |-> {<<t.process_name, t.bucket_number, t.start_date, t.end_date>>
                : t \in {x \in d.tbm : x.fic_mis_date = date}},
     acc |-> {<<a.process_name, a.v_account_number, a.v_prod_code, a.financial_element, a.buckets>>
                : a \in {x \in d.acc : x.fic_mis_date = date}},
     prod |-> {<<p.process_name, p.v_prod_code, p.financial_element, p.buckets>>
                : p \in {x \in d.prod : x.fic_mis_date = date}},
     cols |-> d.report[date].cols,
     rows |-> [k \in 1..Len(d.report[date].rows) |->
                 LET r == d.report[date].rows[k]
                 IN <<r.fic_mis_date, r.process_name, r.v_prod_code, r.financial_element, r.vals>>]]

\* C10: runs of different snapshot dates do not interfere: a run that has
\* ended went as it goes alone, and the relations of its snapshot date are
\* those the run produces alone.
C10_RunsDoNotInterfere ==
    \A date \in SnapshotDates :
        job[date].pc \in {"done", "failed"} =>
            LET alone == RunAlone(db, date)
            IN /\ job[date].pc = alone.pc
               /\ job[date].pc = "done" => RelationsOf(db, date) = RelationsOf(alone.db, date)

----------------------------------------------------------------------------
(* Properties of the execution history *)

\* C11: the history is append-only: a record written with an outcome
\* (Success, Failed or Stopped) is never deleted and its status, end time and
\* error text are never overwritten by a later operation.
C11_HistoryAppendOnly ==
    [][ \A x \in history :
          x.status \in {"Success", "Failed", "Stopped"} =>
             \E y \in history' :
                /\ y.run = x.run /\ y.name = x.name
                /\ y.status = x.status /\ y.ended = x.ended /\ y.err = x.err
      ]_vars

----------------------------------------------------------------------------
(* Properties of the reconciler and of the bucket spread *)

\* the reconciler has returned for the snapshot date
Aligned(date) == job[date].pc = "done" /\ job[date].result.error # "not run"

RECURSIVE SumOver(_, _)
SumOver(row, cols) ==
    IF cols = {} THEN 0
    ELSE LET c == CHOOSE x \in cols : TRUE
         IN Coalesce(row, c) + SumOver(row, cols \ {c})

\* the product_balance rows of the row's product, currency and snapshot date
TargetsOf(d, row) ==
    {b \in d.product_balance : /\ b.fic_mis_date = row.fic_mis_date
                               /\ b.v_prod_code = row.v_prod_code
                               /\ b.v_ccy_code = row.v_ccy_code}

\* C12: once align_buckets_to_balance has returned, every row of the
\* snapshot's report table that has a target balance of its product,
\* currency and date, in a table with at least one bucket column, has a
\* bucket sum within 0.01 of the target rounded half-up to two decimals.
C12_SumMeetsTarget ==
    \A date \in AnchorDates :
       Aligned(date) =>
          LET table == db.report[date]
          IN \A k \in 1..Len(table.rows) :
                \A b \in TargetsOf(db, table.rows[k]) :
                   table.cols # {} =>
                      abs(SumOver(table.rows[k], table.cols) - quantize(b.n_balance)) <= 1

\* a row was adjusted to a target that rounding moved, and now sums to it
C12_Witness ==
    \E date \in AnchorDates :
       /\ Aligned(date)
       /\ \E k \in 1..Len(db.report[date].rows) :
          \E b \in TargetsOf(db, db.report[date].rows[k]) :
             /\ quantize(b.n_balance) * 10 # b.n_balance
             /\ \E n \in 1..Len(job[date].result.adjusted_rows) :
                   job[date].result.adjusted_rows[n].id = db.report[date].rows[k].id
             /\ SumOver(db.report[date].rows[k], db.report[date].cols) = quantize(b.n_balance)

\* the bucket columns in which two versions of a row differ
ChangedColumns(before, after, cols) ==
    {c \in cols : \/ (c \in DOMAIN before.vals) # (c \in DOMAIN after.vals)
                  \/ Coalesce(before, c) # Coalesce(after, c)}

\* C13: a run of the reconciler changes, in each row, at most one bucket
\* column; a row with a target and a non-zero difference (target - bucket sum
\* before) has exactly that column moved by exactly the difference; the
\* other bucket columns, the adjustment column and the other columns keep
\* their values, and a row whose difference is zero keeps all of them.
C13_OneBucketAdjusted ==
    [][ \A date \in AnchorDates :
          job[date].pc = "align" /\ job'[date].pc = "done" =>
             LET before == db.report[date]
                 after == db'.report[date]
             IN /\ after.cols = before.cols
                /\ Len(after.rows) = Len(before.rows)
                /\ \A k \in 1..Len(before.rows) :
                      LET old == before.rows[k]
                          new == after.rows[k]
                          changed == ChangedColumns(old, new, before.cols)
                      IN /\ [new EXCEPT !.vals = old.vals] = old
                         /\ Cardinality(changed) <= 1
                         /\ \A b \in TargetsOf(db, old) :
                               LET difference == quantize(b.n_balance)
                                                   - SumOver(old, before.cols)
                               IN /\ difference = 0 => new = old
                                  /\ difference # 0 /\ before.cols # {} =>
                                        \E c \in changed :
                                           Coalesce(new, c) = Coalesce(old, c) + difference
      ]_vars

\* the reconciler has adjusted one bucket of a row that has several, one of
\* them with another non-zero value
C13_Witness ==
    \E date \in AnchorDates :
       /\ Aligned(date)
       /\ \E n \in 1..Len(job[date].result.adjusted_rows) :
             LET a == job[date].result.adjusted_rows[n]
             IN \E k \in 1..Len(db.report[date].rows) :
                   /\ db.report[date].rows[k].id = a.id
                   /\ a.difference_applied # 0
                   /\ \E c \in db.report[date].cols :
                         /\ c # a.adjusted_column
                         /\ Coalesce(db.report[date].rows[k], c) # 0

\* the columns among which the reconciler is to pick, given which buckets
\* count as matching the sign of the difference: the matching ones, or all
\* of them when none matches
PoolOf(row, cols, matching) ==
    IF {c \in cols : matching[c]} # {} THEN {c \in cols : matching[c]} ELSE cols

\* every row with a target and a non-zero difference has had a column of its
\* pool changed that has the largest absolute value of the pool
AdjustsLargestOf(date, Matches(_, _)) ==
    LET before == db.report[date]
        after == db'.report[date]
    IN \A k \in 1..Len(before.rows) :
          \A b \in TargetsOf(db, before.rows[k]) :
             LET old == before.rows[k]
                 difference == quantize(b.n_balance) - SumOver(old, before.cols)
                 pool == PoolOf(old, before.cols,
                                [c \in before.cols |-> Matches(difference, Coalesce(old, c))])
             IN difference # 0 /\ before.cols # {} =>
                   \E c \in ChangedColumns(old, after.rows[k], before.cols) :
                      /\ c \in pool
                      /\ \A o \in pool : abs(Coalesce(old, o)) <= abs(Coalesce(old, c))

SameSign(difference, value) ==
    \/ difference > 0 /\ value > 0
    \/ difference < 0 /\ value < 0

SameSignOrZero(difference, value) ==
    \/ difference > 0 /\ value >= 0
    \/ difference < 0 /\ value < 0

C15_MissingTargetReported ==
    [][ \A date \in AnchorDates :
          job[date].pc = "align" /\ job'[date].pc = "done" =>
             LET before == db.report[date]
                 after == db'.report[date]
                 result == job'[date].result
             IN \A k \in 1..Len(before.rows) :
                   IF TargetsOf(db, before.rows[k]) = {}
                   THEN /\ after.rows[k] = before.rows[k]
                        /\ \E n \in 1..Len(result.missing_rows) :
                              result.missing_rows[n].id = before.rows[k].id
                   ELSE \A b \in TargetsOf(db, before.rows[k]) :
                           before.cols # {} =>
                              SumOver(after.rows[k], after.cols) = quantize(b.n_balance)
      ]_vars

\* the end-to-end scenario: snapshot date 2025-04-30, the definitions
\* {7 Days}, {1 Months}, {5 Years}, one event of 1000.00 dated 2025-05-01
\* and a target balance of 1200 for its product
Scenario(date) ==
    /\ date = <<2025, 4, 30>>
    /\ [k \in 1..Len(db.time_buckets) |->
          [frequency |-> db.time_buckets[k].frequency,
           multiplier |-> db.time_buckets[k].multiplier]]
       = << [frequency |-> 7, multiplier |-> "Days"],
            [frequency |-> 1, multiplier |-> "Months"],
            [frequency |-> 5, multiplier |-> "Years"] >>
    /\ {[r EXCEPT !.record_count = 0] : r \in db.arranged} = {EventRow(date, 1)}
    /\ EventRow(date, 1).d_cashflow_date = <<2025, 5, 1>>
    /\ EventRow(date, 1).n_total_cash_flow_amount = 100000
    /\ \E b \in db.product_balance :
          /\ b.fic_mis_date = date /\ b.v_prod_code = EventRow(date, 1).v_prod_code
          /\ b.v_ccy_code = EventRow(date, 1).v_ccy_code /\ b.n_balance = 1200000

\* in the scenario the event is aggregated entirely into bucket n, and the
\* reconciler adds 200.00 to the column of bucket n, giving a sum of 1200.00
ScenarioInBucket(date, n) ==
    /\ \A a \in db.acc :
          a.fic_mis_date = date =>
             a.buckets = [i \in 1..3 |-> IF i = n THEN EventRow(date, 1)[a.financial_element]
                                         ELSE 0]
    /\ Aligned(date) =>
          /\ Len(db.report[date].rows) = 1
          /\ Len(job[date].result.adjusted_rows) = 1
          /\ job[date].result.adjusted_rows[1].adjusted_column[2] = n
          /\ job[date].result.adjusted_rows[1].difference_applied = 20000
          /\ \A c \in db.report[date].cols :
                Coalesce(db.report[date].rows[1], c) = IF c[2] = n THEN 120000 ELSE 0
          /\ SumOver(db.report[date].rows[1], db.report[date].cols) = 120000

\* C16 as stated: in the scenario the event goes entirely into bucket 2 and
\* the reconciler adds 200 to bucket 2, giving a bucket sum of 1200.
C16_ScenarioBucketTwo ==
    \A date \in AnchorDates : Scenario(date) => ScenarioInBucket(date, 2)

\* C16 amended: in the scenario the event goes entirely into bucket 1
\* ([2025-04-30, 2025-05-07]) and the reconciler adds 200 to bucket 1, giving
\* a bucket sum of 1200.
C16_ScenarioBucketOne ==
    \A date \in AnchorDates : Scenario(date) => ScenarioInBucket(date, 1)

\* the scenario has run through the reconciler
C16_Witness ==
    \E date \in AnchorDates :
       /\ Scenario(date)
       /\ Aligned(date)
       /\ Len(job[date].result.adjusted_rows) = 1
       /\ \E a \in db.acc : a.fic_mis_date = date

\* the ordered bucket definitions {7 Days}, {1 Months}, {5 Years}
ScenarioDefinitions ==
    [k \in 1..Len(db.time_buckets) |->
       [frequency |-> db.time_buckets[k].frequency,
        multiplier |-> db.time_buckets[k].multiplier]]
    = << [frequency |-> 7, multiplier |-> "Days"],
         [frequency |-> 1, multiplier |-> "Months"],
         [frequency |-> 5, multiplier |-> "Years"] >>

\* the ranges of the TimeBucketMaster rows of the contractual process and a
\* snapshot date, as (bucket_number, start_date, end_date)
MasterRanges(date) ==
    {<<t.bucket_number, t.start_date, t.end_date>> :
        t \in {x \in db.tbm : x.process_name = "contractual" /\ x.fic_mis_date = date}}

\* C17 as stated: anchored at 2025-04-30 the definitions {7 Days}, {1 Month},
\* {5 Years} give exactly [2025-04-30, 2025-05-07], [2025-05-08, 2025-06-07],
\* [2025-06-08, 2030-06-07].
C17_ScenarioRanges ==
    ScenarioDefinitions /\ MasterRanges(<<2025, 4, 30>>) # {} =>
       MasterRanges(<<2025, 4, 30>>) =
          { <<1, <<2025, 4, 30>>, <<2025, 5, 7>>>>,
            <<2, <<2025, 5, 8>>, <<2025, 6, 7>>>>,
            <<3, <<2025, 6, 8>>, <<2030, 6, 7>>>> }

\* C17 amended: anchored at 2025-04-30 the definitions {7 Days}, {1 Month},
\* {5 Years} give exactly [2025-04-30, 2025-05-07], [2025-05-08, 2025-06-08],
\* [2025-06-09, 2030-06-09]: each end is the start plus the whole frequency.
C17_ScenarioRangesInclusive ==
    ScenarioDefinitions /\ MasterRanges(<<2025, 4, 30>>) # {} =>
       MasterRanges(<<2025, 4, 30>>) =
          { <<1, <<2025, 4, 30>>, <<2025, 5, 7>>>>,
            <<2, <<2025, 5, 8>>, <<2025, 6, 8>>>>,
            <<3, <<2025, 6, 9>>, <<2030, 6, 9>>>> }

\* the generator has written the ranges of the scenario
C17_Witness ==
    /\ ScenarioDefinitions
    /\ Cardinality(MasterRanges(<<2025, 4, 30>>)) = 3
    /\ job[<<2025, 4, 30>>].pc = "aggregate"

\* the TimeBucketMaster rows of the contractual process and a snapshot date
MasterRows(date) ==
    {t \in db.tbm : t.process_name = "contractual" /\ t.fic_mis_date = date}

\* C18: the ranges generated for any list of bucket definitions and any
\* anchor date, as written to the BucketMaster of the snapshot, are numbered
\* 1..N without gaps, one row per definition; the first starts at the anchor
\* date, every range has start <= end, and each range starts on the day after
\* the previous one ends.
C18_RangesContiguous ==
    \A date \in AnchorDates :
       MasterRows(date) # {} =>
          /\ {t.bucket_number : t \in MasterRows(date)} = 1..Len(db.time_buckets)
          /\ Cardinality(MasterRows(date)) = Len(db.time_buckets)
          /\ \A t \in MasterRows(date) :
                /\ t.bucket_number = 1 => t.start_date = date
                /\ DateLE(t.start_date, t.end_date)
                /\ \A u \in MasterRows(date) :
                      u.bucket_number = t.bucket_number + 1 =>
                         u.start_date = NextDay(t.end_date)

\* the definitions hold an unknown unit, or there is none
BadDefinitions ==
    \/ db.time_buckets = <<>>
    \/ \E k \in 1..Len(db.time_buckets) :
          db.time_buckets[k].multiplier \notin {"Days", "Months", "Years"}

\* C19: when calculate_time_buckets_and_spread meets an unknown bucket unit
\* or an empty definition list it raises, and the BucketMaster rows, the
\* AggregateRows and the events with their record_count flags are as they
\* were before the call.
C19_FailureWritesNothing ==
    [][ \A date \in AnchorDates :
          job[date].pc = "spread" /\ job'[date] # job[date] /\ BadDefinitions =>
             /\ job'[date].pc \in {"spread", "failed"}
             /\ job'[date].pc = "spread" => job'[date].attempt = job[date].attempt + 1
             /\ db'.tbm = db.tbm
             /\ db'.acc = db.acc
             /\ db'.arranged = db.arranged
      ]_vars

\* the step has raised on an unknown unit while the snapshot has events,
\* whose flags are still 0
C19_Witness ==
    \E date \in AnchorDates :
       /\ job[date].pc = "spread" /\ job[date].attempt >= 1
       /\ BadDefinitions /\ db.time_buckets # <<>>
       /\ \E r \in db.arranged : r.fic_mis_date = date /\ r.record_count = 0

RECURSIVE SumElement(_, _)
SumElement(rows, element) ==
    IF rows = {} THEN 0
    ELSE LET r == CHOOSE x \in rows : TRUE
         IN r[element] + SumElement(rows \ {r}, element)

\* C20: after the spread, the bucket columns of every AggregateRow sum to the
\* sum of its element over the eligible events of its group dated between the
\* start of the first and the end of the last BucketMaster range; each of
\* these events lies in exactly one range and every other event in none.
C20_AggregationComplete ==
    \A date \in AnchorDates :
       MasterRows(date) # {} /\ job[date].pc = "aggregate" =>
          LET first == CHOOSE t \in MasterRows(date) :
                          \A u \in MasterRows(date) : t.bucket_number <= u.bucket_number
              last == CHOOSE t \in MasterRows(date) :
                          \A u \in MasterRows(date) : u.bucket_number <= t.bucket_number
              eligible == {r \in db.arranged : r.fic_mis_date = date /\ r.record_count = 1}
              InSpan(r) == /\ DateLE(first.start_date, r.d_cashflow_date)
                           /\ DateLE(r.d_cashflow_date, last.end_date)
              holding(r) == {t \in MasterRows(date) :
                                /\ DateLE(t.start_date, r.d_cashflow_date)
                                /\ DateLE(r.d_cashflow_date, t.end_date)}
          IN /\ \A a \in db.acc :
                   a.fic_mis_date = date =>
                      SumSeq(a.buckets) =
                         SumElement({r \in eligible : /\ r.v_account_number = a.v_account_number
                                                      /\ r.v_prod_code = a.v_prod_code
                                                      /\ r.v_ccy_code = a.v_ccy_code
                                                      /\ InSpan(r)},
                                    a.financial_element)
             /\ \A r \in eligible :
                   Cardinality(holding(r)) = IF InSpan(r) THEN 1 ELSE 0

----------------------------------------------------------------------------
(* Properties of the schema synchronizer *)

\* the relation the calls of this behaviour are made on
SyncedRelation == db.report[job.call.table_name]

\* C21: a sync_bucket_columns call that follows another one on the same
\* relation, with no refresh of the TimeBucketMaster in between, leaves the
\* relation with the column set the first call left, on rebuild targets and
\* on append-only targets alike.
C21_SyncIdempotent ==
    [][(job.runs >= 1 /\ job'.runs = job.runs + 1)
         => db'.report[job.call.table_name].cols = SyncedRelation.cols]_vars

\* a rebuild target synced twice in a row, with bucket columns, the second
\* call having dropped and added them
C21_Witness ==
    /\ job.runs = 2
    /\ job.last.op = "sync"
    /\ must_rebuild(job.call.table_name, job.call.rebuild)
    /\ Cardinality(_get_bucket_cols_pg(SyncedRelation)) >= 2
    /\ job.last.dropped # {}

\* the bucket columns named for the TimeBucketMaster rows of a process and
\* a snapshot date
ColumnsOfMaster(d, process, fic_mis_date) ==
    {bucket_column_name(bucket) :
        bucket \in {t \in d.tbm : t.process_name = process /\ t.fic_mis_date = fic_mis_date}}

\* C22: after sync_bucket_columns on a rebuild target (here the call of a
\* run on Report_Contractual_Base) the bucket columns of the relation are
\* exactly those named for the buckets of the process and snapshot date of
\* the run in progress, after any sequence of runs.
C22_ColumnsOfCurrentMaster ==
    [][\A date \in SnapshotDates :
          (job[date].pc = "sync" /\ job'[date].pc = "create")
             => db'.base = ColumnsOfMaster(db', "contractual", date)]_vars

\* C23: the second of two consecutive sync_bucket_columns calls on the same
\* relation, with no refresh of the TimeBucketMaster in between, drops no
\* column and adds none and leaves the relation with its columns and stored
\* values as they were; and no call drops a column that is not a bucket
\* column.
C23_SecondSyncNoOp ==
    [][/\ (job.runs >= 1 /\ job'.runs = job.runs + 1)
            => /\ job'.last.dropped = {}
               /\ job'.last.added = {}
               /\ db'.report = db.report
       /\ job'.last.dropped \cap StaticColumns = {}]_vars

----------------------------------------------------------------------------
(* Properties of the behavioural respread *)

\* the sum of the bucket amounts of a row, NULL counting as zero
BucketSum(row) == SumOfSet(DOMAIN row.vals, row.vals)

\* the pattern of a product type sums to 100 percent
SumsToHundred(d, v_prod_type) ==
    \A pat \in d.patterns :
        pat.v_prod_type = v_prod_type => SumOfSet(DOMAIN pat.splits, pat.splits) = HundredPercent

\* C24: every row written by load_report_behavioural has a bucket sum equal
\* to the bucket sum of its source row, within one hundredth per bucket
\* column, whenever the percentages of the pattern sum to 100, whatever the
\* number of bucket columns of the source relation is.
C24_RespreadConserves ==
    job.pc = "done" =>
        \A k \in DOMAIN db.report[DstTable].rows :
            LET dst == db.report[DstTable].rows[k]
                src == db.report[SrcTable].rows[dst.id]
            IN SumsToHundred(db, dst.v_prod_type)
                  => abs(BucketSum(dst) - BucketSum(src)) <= Cardinality(DOMAIN dst.vals)

----------------------------------------------------------------------------
(* Properties of the report load *)

\* the Aggregated_Prod_Cashflow_Base rows the load of LoadDate reads
LoadedGroups ==
    {p \in db.prod : /\ p.fic_mis_date = LoadDate
                     /\ p.process_name = "contractual"
                     /\ p.financial_element = "n_total_cash_flow_amount"}

\* the rows of the relation of LoadDate created from an aggregate row
RowsFrom(p) ==
    {k \in DOMAIN db.report[LoadDate].rows :
        db.report[LoadDate].rows[k].cashflow_by_bucket = p.id}

\* C25: report_contractual_load is idempotent: after it has run once or
\* more for a snapshot date on the same per-snapshot relation, the relation
\* has exactly one row per Aggregated_Prod_Cashflow_Base group.
C25_LoadIdempotent ==
    (job.loads >= 1 /\ job.ok) =>
        \A p \in LoadedGroups : Cardinality(RowsFrom(p)) = 1

\* C27: after report_contractual_load, the value of each report row in the
\* column of bucket n (NULL counting as 0) is bucket_n of the aggregate row
\* its cashflow_by_bucket_id refers to, for every bucket of the
\* TimeBucketMaster of the snapshot date, also when aggregate rows share
\* product and currency and when the master has rows of other dates.
C27_RowCarriesItsAggregate ==
    (job.loads = 1 /\ job.ok) =>
        \A p \in LoadedGroups : \A k \in RowsFrom(p) :
            \A t \in {m \in db.tbm : m.process_name = "contractual" /\ m.fic_mis_date = LoadDate} :
                Coalesce(db.report[LoadDate].rows[k], bucket_column_name(t))
                    = p.buckets[t.bucket_number]

----------------------------------------------------------------------------
(* Properties of the recorded statuses *)

----------------------------------------------------------------------------
(* Properties of the step outcomes *)

\* C28: a step is recorded Success, and the run advances to the steps that
\* depend on it, only if its operation completed without error: when the
\* product roll-up advances, the rows of the date are the roll-up of the
\* account rows, and when the reconciler advances its result is no error.
C28_SuccessMeansCompleted ==
    [][\A date \in AnchorDates :
          /\ (job[date].pc = "aggregate" /\ job'[date].pc \in {"sync", "create"})
                => db' = AggregateRows(db, date).db
          /\ (job[date].pc = "align" /\ job'[date].pc = "done")
                => job'[date].result.error = ""]_vars

\* the response data of a request that returned JsonResponse(response_data)
ResponseData(r) == format_response(_results(runner, r))

\* C29: the response of execute_functions has completed = true only if every
\* step the call had to run ended Success: a call in which a step was
\* recorded Failed answers completed = false.
C29_CompletedMeansAllSuccess ==
    \A r \in Runners :
        (runner[r].response = "ok" /\ runner[r].failed # "")
            => ~ResponseData(r).completed

----------------------------------------------------------------------------
(* Properties of Pipeline.execute *)

\* the steps named in a sequence of names are all different
NoNameTwice(names) ==
    \A i, j \in 1..Len(names) : i # j => names[i] # names[j]

\* what holds of an execution of a validated step list at any time
ExecuteInOrder ==
    pipe.error # "ValueError" =>
        /\ pipe.error # "RuntimeError"
        /\ NoNameTwice(pipe.invoked)
        /\ Len(pipe.results) = Len(pipe.invoked)
        /\ (pipe.pc = "returned" /\ \A k \in 1..Len(pipe.results) : pipe.results[k] = "Success")
              => Len(pipe.invoked) = Len(pipe.steps)

\* C30: for every step list that validate_dependencies accepts,
\* Pipeline.execute terminates, invokes each step at most once, returns one
\* result per executed step in execution order, executes all the steps when
\* none fails, and never raises the RuntimeError 'Unable to resolve
\* dependencies'.
C30_ExecuteTerminatesInOrder ==
    /\ []ExecuteInOrder
    /\ <>(pipe.pc \in {"returned", "raised"})

====
